---------------------------- MODULE Spec2Model ----------------------------
(***************************************************************************)
(* Verification model of the NSE <-> BSE arbitrage bot:                    *)
(*   src/src/core/safety.py          SafetyManager                         *)
(*   src/src/core/spread_detector.py SpreadDetector                        *)
(*   src/src/core/order_executor.py  OrderExecutor                         *)
(*   src/src/core/decision_engine.py DecisionEngine                        *)
(*                                                                         *)
(* Money is counted in paise (1 rupee = 100), time in seconds.             *)
(*                                                                         *)
(* Eight specifications share the variables:                               *)
(*   Spec          the executor: execute_pair, the two leg placements on   *)
(*                 the worker pool, _post_execute, _failsafe, driving the  *)
(*                 SafetyManager. A call lasts seconds and fewer than      *)
(*                 max_trades_per_minute calls are admitted, so the clock  *)
(*                 stands still here; SafetySpec moves it.                 *)
(*   BreakerSpec   Spec fed with one symbol's signals, under weak fairness *)
(*   SafetySpec    the SafetyManager's methods called in any order         *)
(*   DetectorSpec  SpreadDetector.evaluate applied to bounded snapshots    *)
(*   EngineSpec    DecisionEngine.run consuming the feed's ticks, with its *)
(*                 heartbeat task and its cancellation; the callback is    *)
(*                 a call in progress, what it does is Spec                *)
(*   ConcurrentSpec several calls of execute_pair interleaving at their   *)
(*                 awaits on one executor, the venue's part abstracted     *)
(*   HistorySpec   record_trade on a history that is (nearly) full         *)
(*   PollSpec      one _wait_for_completion: polls, deadline, IOC re-check *)
(*                 and explicit cancellation, under weak fairness          *)
(***************************************************************************)
EXTENDS Integers, Sequences, FiniteSets, TLC

VARIABLES
    \* ---- SafetyManager (safety.py:28-31) and the wall clock it reads
    trade_history,   \* deque of TradeRecord, oldest first
    open_symbols,    \* dict symbol -> count; DOMAIN = the keys present
    failed_fills,    \* consecutive-failure counter
    now,             \* time.time()
    sm_ret,          \* SafetySpec: what the most recent SafetyManager call returned
    \* ---- SpreadDetector and the settings it reads
    det_min_spread,  \* SpreadDetector.min_spread (constructor argument)
    per_symbol_qty,  \* settings.per_symbol_qty
    snapshot,        \* the QuoteSnapshot handed to evaluate
    signal,          \* what evaluate returned
    \* ---- OrderExecutor.execute_pair, one call in flight
    pc,              \* where the call stands
    call,            \* its arguments: buy_leg, sell_leg, spread
    results,         \* per leg: what its placement returned
    venue,           \* per leg: what the venue really did with the order
    sq_legs,         \* _failsafe: legs_to_close
    sq_state,        \* _failsafe: per square-off order, its placement's progress
    acct,            \* per call: how often each SafetyManager method and the
                     \* failsafe were invoked, and how the call ended
    admitted,        \* how many calls passed the admission gate so far
    workers,         \* the worker pool's placements that outlive a cancelled call
    \* ---- DecisionEngine.run, its heartbeat task and the feed's queue
    nse_ticks,       \* dict symbol -> latest NSE tick; DOMAIN = the keys present
    bse_ticks,       \* dict symbol -> latest BSE tick
    queue,           \* feed.queue: ticks that arrived and were not pulled yet
    received,        \* the ticks next_tick returned so far, in the order of the pulls
    run_pc,          \* where run stands
    heartbeat_task,  \* the state of the task running _heartbeat_loop
    callback,        \* whether a call of the execution callback is in progress
    cancel_requested,\* whether the run task was cancelled
    errors,          \* how many exceptions the loop's handler caught so far
    iteration,       \* what the latest iteration of the loop did with its tick
    \* ---- OrderExecutor.execute_pair, several calls in flight on one executor
    calls,           \* per call: where it stands and the symbol it trades
    \* ---- OrderExecutor._wait_for_completion for one accepted order
    poll,            \* where the wait stands, what it has seen and what it did
    \* ---- DecisionEngine._log_heartbeat
    heartbeat_log    \* what the latest heartbeat wrote to the log

safety_vars   == <<trade_history, open_symbols, failed_fills, now, sm_ret>>
detector_vars == <<det_min_spread, per_symbol_qty, snapshot, signal>>
executor_vars == <<pc, call, results, venue, sq_legs, sq_state, acct, admitted, workers>>
engine_vars   == <<nse_ticks, bse_ticks, queue, received, run_pc, heartbeat_task,
                   callback, cancel_requested, errors, iteration, heartbeat_log>>
concurrent_vars == <<calls>>
polling_vars == <<poll>>
vars == <<trade_history, open_symbols, failed_fills, now, sm_ret,
          det_min_spread, per_symbol_qty, snapshot, signal,
          pc, call, results, venue, sq_legs, sq_state, acct, admitted, workers,
          nse_ticks, bse_ticks, queue, received, run_pc, heartbeat_task,
          callback, cancel_requested, errors, iteration, calls, poll, heartbeat_log>>

-----------------------------------------------------------------------------
(* Bounds of the model *)

\* the clock stops advancing here
MaxTime == 61
\* execute_pair is admitted at most this often in Spec (blocked calls are not counted)
MaxAttempts == 2
\* SafetySpec: record_trade is called at most this often
MaxRecords == 4
\* SafetySpec: register_open is called on one symbol at most this often
MaxOpenCount == 2
\* the clock advances in these steps: a record ages to exactly 60 s and to 61 s
TimeSteps == {60, 61}
\* EngineSpec: the feed delivers at most this many ticks
MaxTicks == 3
\* ConcurrentSpec: this many calls of execute_pair run on the one executor
MaxCalls == 3
\* PollSpec: the polling loop makes at most this many polls before its deadline
MaxPolls == 3
Symbols == {"SBIN", "INFY"}
Calls == 1..MaxCalls
Exchanges == {"NSE", "BSE"}

-----------------------------------------------------------------------------
(* Program constants *)

RateWindow == 60
HistoryMaxLen == 1000
MaxTradesPerMinute == 4
MaxOpenExposure == 1
MaxFailedFills == 2
MaxSlippagePerLeg == 25
MinSpread == 100
DefaultQuantity == 1
\* settings.trading_start 09:15 and settings.trading_end 15:30, in seconds of the day
TradingStart == 33300
TradingEnd == 55800

NoValue == [op |-> "none"]

-----------------------------------------------------------------------------
(* SafetyManager *)

TradeRecord(timestamp, symbol, spread, success) ==
    [timestamp |-> timestamp, symbol |-> symbol, spread |-> spread, success |-> success]

\* a window that leaves out the record exactly 60 s old (a variant of TradesPerMinute)
TradesPerMinute_open_window(history, t) ==
    Len(SelectSeq(history, LAMBDA r : t - r.timestamp < RateWindow))

\* a count of all records, however old (a variant of TradesPerMinute)
TradesPerMinute_no_window(history, t) == Len(history)

\* len([t for t in trade_history if now - t.timestamp <= 60])
TradesPerMinute(history, t) ==
    Len(SelectSeq(history, LAMBDA r : t - r.timestamp <= RateWindow))

\* open_symbols.get(symbol, 0)
OpenGet(os, symbol) == IF symbol \in DOMAIN os THEN os[symbol] ELSE 0

\* an admission gate without the failed-fills check (a variant of can_trade_on)
can_trade_on_no_breaker(history, os, ff, t, symbol) ==
    IF Len(SelectSeq(history, LAMBDA r : t - r.timestamp <= RateWindow)) >= MaxTradesPerMinute
    THEN FALSE
    ELSE IF symbol \in DOMAIN os /\ os[symbol] > 0 THEN FALSE
    ELSE IF Cardinality(DOMAIN os) >= MaxOpenExposure THEN FALSE
    ELSE TRUE

can_trade_on(history, os, ff, t, symbol) ==
    IF TradesPerMinute(history, t) >= MaxTradesPerMinute THEN FALSE
    ELSE IF OpenGet(os, symbol) > 0 THEN FALSE
    ELSE IF Cardinality(DOMAIN os) >= MaxOpenExposure THEN FALSE
    ELSE IF ff >= MaxFailedFills THEN FALSE
    ELSE TRUE

can_trade(symbol) ==
    can_trade_on(trade_history, open_symbols, failed_fills, now, symbol)

\* a register_open that sets no marker (a variant of register_open)
register_open_skipped(os, symbol) == os

register_open(os, symbol) ==
    [s \in DOMAIN os \cup {symbol} |-> IF s = symbol THEN OpenGet(os, symbol) + 1 ELSE os[s]]

\* a register_close that deletes the entry whatever its count (a variant of
\* register_close)
register_close_drops_entry(os, symbol) ==
    [s \in DOMAIN os \ {symbol} |-> os[s]]

\* a register_close that leaves the marker in place (a variant of register_close)
register_close_kept(os, symbol) == os

register_close(os, symbol) ==
    IF symbol \in DOMAIN os
    THEN IF os[symbol] - 1 <= 0
         THEN [s \in DOMAIN os \ {symbol} |-> os[s]]
         ELSE [os EXCEPT ![symbol] = @ - 1]
    ELSE os

\* a list that grows without bound (a variant of DequeAppend)
DequeAppend_unbounded(history, r) == Append(history, r)

\* deque(maxlen=1000).append: a full deque drops its oldest record
DequeAppend(history, r) ==
    IF Len(history) >= HistoryMaxLen THEN Append(Tail(history), r) ELSE Append(history, r)

record_trade_history(history, t, symbol, spread, success) ==
    DequeAppend(history, TradeRecord(t, symbol, spread, success))

\* a counter that a success leaves as it is (a variant of record_trade_failed)
record_trade_failed_no_reset(ff, success) == IF success THEN ff ELSE ff + 1

record_trade_failed(ff, success) == IF success THEN 0 ELSE ff + 1

\* time.time() moves on
AdvanceClock ==
    \E d \in TimeSteps :
        /\ now + d <= MaxTime
        /\ now' = now + d


-----------------------------------------------------------------------------
(* SafetySpec: the SafetyManager's methods, called in any order *)

SpreadArgs == {150}

SM_CanTrade(symbol) ==
    /\ sm_ret' = [op |-> "can_trade", symbol |-> symbol, result |-> can_trade(symbol)]
    /\ UNCHANGED <<trade_history, open_symbols, failed_fills, now>>
    /\ UNCHANGED <<detector_vars, executor_vars>>
    /\ UNCHANGED <<engine_vars, concurrent_vars, polling_vars>>

SM_RegisterOpen(symbol) ==
    /\ OpenGet(open_symbols, symbol) < MaxOpenCount
    /\ open_symbols' = register_open(open_symbols, symbol)
    /\ sm_ret' = NoValue
    /\ UNCHANGED <<trade_history, failed_fills, now>>
    /\ UNCHANGED <<detector_vars, executor_vars>>
    /\ UNCHANGED <<engine_vars, concurrent_vars, polling_vars>>

SM_RegisterClose(symbol) ==
    /\ open_symbols' = register_close(open_symbols, symbol)
    /\ sm_ret' = NoValue
    /\ UNCHANGED <<trade_history, failed_fills, now>>
    /\ UNCHANGED <<detector_vars, executor_vars>>
    /\ UNCHANGED <<engine_vars, concurrent_vars, polling_vars>>

SM_RecordTrade(symbol, spread, success) ==
    /\ Len(trade_history) < MaxRecords
    /\ trade_history' = record_trade_history(trade_history, now, symbol, spread, success)
    /\ failed_fills' = record_trade_failed(failed_fills, success)
    /\ sm_ret' = NoValue
    /\ UNCHANGED <<open_symbols, now>>
    /\ UNCHANGED <<detector_vars, executor_vars>>
    /\ UNCHANGED <<engine_vars, concurrent_vars, polling_vars>>

SM_Tick ==
    /\ AdvanceClock
    /\ sm_ret' = NoValue
    /\ UNCHANGED <<trade_history, open_symbols, failed_fills>>
    /\ UNCHANGED <<detector_vars, executor_vars>>
    /\ UNCHANGED <<engine_vars, concurrent_vars, polling_vars>>

\* record_trade on a long-running bot: HistorySpec calls it at most MaxRecords times at
\* the clock reading it starts with
RecordTrade(symbol, spread, success) ==
    /\ Len(SelectSeq(trade_history, LAMBDA r : r.timestamp = now)) < MaxRecords
    /\ trade_history' = record_trade_history(trade_history, now, symbol, spread, success)
    /\ failed_fills' = record_trade_failed(failed_fills, success)
    /\ sm_ret' = NoValue
    /\ UNCHANGED <<open_symbols, now>>
    /\ UNCHANGED <<detector_vars, executor_vars>>
    /\ UNCHANGED <<engine_vars, concurrent_vars, polling_vars>>

-----------------------------------------------------------------------------
(* SpreadDetector *)

PriceLevels == {10000, 10100, 10200}
QtyLevels == {1, 2}
DetectorThresholds == {0, 100, 200}

\* the fields evaluate reads (the last-traded prices and the depth are not read)
QuoteSnapshots ==
    [symbol : Symbols,
     nse_bid : PriceLevels, nse_ask : PriceLevels,
     bse_bid : PriceLevels, bse_ask : PriceLevels,
     nse_bid_qty : QtyLevels, nse_ask_qty : QtyLevels,
     bse_bid_qty : QtyLevels, bse_ask_qty : QtyLevels]

Max(a, b) == IF a >= b THEN a ELSE b

\* settings.quantity_for
quantity_for(symbol) ==
    IF symbol \in DOMAIN per_symbol_qty THEN per_symbol_qty[symbol] ELSE DefaultQuantity

\* a liquidity test of the buy side only (a variant of _has_liquidity)
_has_liquidity_buy_only(buy_side_qty, sell_side_qty, required) ==
    buy_side_qty >= required

_has_liquidity(buy_side_qty, sell_side_qty, required) ==
    buy_side_qty >= required /\ sell_side_qty >= required

SpreadSignal(symbol, spread, buy_exchange, sell_exchange, quantity) ==
    [op |-> "signal", symbol |-> symbol, spread |-> spread,
     buy_exchange |-> buy_exchange, sell_exchange |-> sell_exchange, quantity |-> quantity]

\* an evaluate that gives a tie to buy-BSE/sell-NSE (a variant of evaluate)
evaluate_tie_bse(snap) ==
    LET qty == quantity_for(snap.symbol)
        min_spread_threshold == Max(det_min_spread, MinSpread)
        spread_nse_buy == snap.bse_bid - snap.nse_ask
        spread_bse_buy == snap.nse_bid - snap.bse_ask
    IN  IF spread_nse_buy > spread_bse_buy /\ spread_nse_buy >= min_spread_threshold
        THEN IF ~ _has_liquidity(snap.nse_ask_qty, snap.bse_bid_qty, qty)
             THEN NoValue
             ELSE SpreadSignal(snap.symbol, spread_nse_buy, "NSE", "BSE", qty)
        ELSE IF spread_bse_buy >= min_spread_threshold
        THEN IF ~ _has_liquidity(snap.bse_ask_qty, snap.nse_bid_qty, qty)
             THEN NoValue
             ELSE SpreadSignal(snap.symbol, spread_bse_buy, "BSE", "NSE", qty)
        ELSE NoValue

evaluate(snap) ==
    LET qty == quantity_for(snap.symbol)
        min_spread_threshold == Max(det_min_spread, MinSpread)
        spread_nse_buy == snap.bse_bid - snap.nse_ask
        spread_bse_buy == snap.nse_bid - snap.bse_ask
    IN  IF spread_nse_buy >= spread_bse_buy /\ spread_nse_buy >= min_spread_threshold
        THEN IF ~ _has_liquidity(snap.nse_ask_qty, snap.bse_bid_qty, qty)
             THEN NoValue
             ELSE SpreadSignal(snap.symbol, spread_nse_buy, "NSE", "BSE", qty)
        ELSE IF spread_bse_buy >= min_spread_threshold
        THEN IF ~ _has_liquidity(snap.bse_ask_qty, snap.nse_bid_qty, qty)
             THEN NoValue
             ELSE SpreadSignal(snap.symbol, spread_bse_buy, "BSE", "NSE", qty)
        ELSE NoValue

NotEvaluated == [op |-> "pending"]

\* DetectorSpec: evaluate applied to the snapshot drawn in the initial state
Evaluate ==
    /\ signal = NotEvaluated
    /\ signal' = evaluate(snapshot)
    /\ UNCHANGED <<det_min_spread, per_symbol_qty, snapshot>>
    /\ UNCHANGED <<safety_vars, executor_vars>>
    /\ UNCHANGED <<engine_vars, concurrent_vars, polling_vars>>

-----------------------------------------------------------------------------
(* OrderExecutor: the venue gateway as _place_order sees it *)

OrderLeg(exchange, symbol, side, quantity, order_type, validity, price) ==
    [exchange |-> exchange, symbol |-> symbol, side |-> side, quantity |-> quantity,
     order_type |-> order_type, validity |-> validity, price |-> price]

Opposite(side) == IF side = "BUY" THEN "SELL" ELSE "BUY"
OtherExchange(x) == IF x = "NSE" THEN "BSE" ELSE "NSE"
Abs(x) == IF x >= 0 THEN x ELSE -x

\* A price field of a venue response: absent (None), a number, or a string holding
\* a number ("101.50"); amt is its value in paise.
NonePrice == [kind |-> "none", amt |-> 0]
Num(a) == [kind |-> "num", amt |-> a]
Str(a) == [kind |-> "str", amt |-> a]
\* Python truthiness: None and 0.0 are falsy, a non-empty string ("0" too) is truthy
Truthy(p) == (p.kind = "num" /\ p.amt # 0) \/ p.kind = "str"
PyOr(a, b) == IF Truthy(a) THEN a ELSE b
Typed(kind, a) == [kind |-> kind, amt |-> a]

\* how far from the limit price the venue may fill: at it, at the slippage limit, beyond it
FillDeviations == {0, MaxSlippagePerLeg, MaxSlippagePerLeg + 1}
MarketFillPrice == [BUY |-> 10010, SELL |-> 10090]

FillPrices(leg) ==
    IF leg.order_type = "LIMIT"
    THEN {IF leg.side = "BUY" THEN leg.price - d ELSE leg.price + d : d \in FillDeviations}
    ELSE {MarketFillPrice[leg.side]}

\* (status, filled shares) an order of quantity q can end with at the venue; PENDING is an
\* order still live when the placement returns
VenueFills(q) ==
    {<<"COMPLETE", n>> : n \in 1..q}
    \cup {<<"REJECTED", 0>>}
    \cup {<<"CANCELLED", n>> : n \in 0..(q - 1)}
    \cup {<<"PENDING", n>> : n \in 0..(q - 1)}

\* the order's entry in orderBook(): the price fields are numbers or strings
BookEntries(leg) ==
    {[status |-> sf[1], filledshares |-> sf[2], quantity |-> leg.quantity,
      averageprice |-> Typed(k, IF sf[2] = 0 THEN 0 ELSE a),
      price |-> Typed(k, leg.price)] :
        sf \in VenueFills(leg.quantity), k \in {"num", "str"}, a \in FillPrices(leg)}

\* What the gateway does during one _place_order: the session is missing and cannot be
\* renewed, the token is not in TOKEN_MAP, placeOrder answers an error or raises, or the
\* order is accepted and ends as `entry`; `polled`: the orderBook() calls of
\* _wait_for_completion answer; `details`: the orderBook() call of _get_order_details answers
PlaceEnvs(leg) ==
    {[pre |-> p, entry |-> NoValue, polled |-> FALSE, details |-> FALSE] :
        p \in {"auth_fails", "no_token", "submit_rejected", "submit_raises"}}
    \cup {[pre |-> "accepted", entry |-> e, polled |-> b, details |-> d] :
        e \in BookEntries(leg), b \in BOOLEAN, d \in BOOLEAN}

\* {"error": <message>, "status": "error"}
ErrorResult(msg) == [status |-> "error", error |-> msg]
Raised == [status |-> "raised"]

_get_order_details(entry, answered) ==
    IF answered
    THEN [status |-> entry.status, filled_qty |-> entry.filledshares,
          requested_qty |-> entry.quantity,
          price |-> PyOr(entry.averageprice, entry.price)]
    ELSE [status |-> "UNKNOWN", filled_qty |-> 0, requested_qty |-> 0, price |-> NonePrice]

\* A terminal status seen by a poll is returned; at the timeout the last details decide:
\* an IOC order still PENDING is cancelled, which turns it CANCELLED at the venue, and an
\* order the venue still shows PENDING is one whose cancel request failed
_wait_for_completion(entry, polled, is_ioc) ==
    IF polled THEN entry.status ELSE "UNKNOWN"

_place_order(leg, env) ==
    IF env.pre = "auth_fails" THEN Raised
    ELSE IF env.pre = "no_token" THEN ErrorResult("missing token")
    ELSE IF leg.order_type = "LIMIT" /\ leg.price <= 0 THEN ErrorResult("Invalid limit price")
    ELSE IF env.pre = "submit_raises" THEN ErrorResult("exception")
    ELSE IF env.pre # "accepted" THEN ErrorResult("placement failed")
    ELSE LET status == _wait_for_completion(env.entry, env.polled, leg.validity = "IOC")
             order_details == _get_order_details(env.entry, env.details)
             execution_price == order_details.price
             filled_qty == order_details.filled_qty
             requested_qty == order_details.requested_qty
         IN  IF status = "COMPLETE" /\ filled_qty > 0 /\ filled_qty # requested_qty
             THEN [status |-> "PARTIAL", price |-> execution_price,
                   filled_qty |-> filled_qty, requested_qty |-> requested_qty]
             ELSE [status |-> status, price |-> execution_price,
                   filled_qty |-> IF filled_qty > 0 THEN filled_qty ELSE leg.quantity,
                   requested_qty |-> leg.quantity]

\* execute_pair's place(): an exception of the worker becomes an error result
place(leg, env) ==
    LET r == _place_order(leg, env) IN IF r = Raised THEN ErrorResult("exception") ELSE r

\* what the venue really filled of the leg's order
VenueFilled(env) == IF env.pre = "accepted" THEN env.entry.filledshares ELSE 0

-----------------------------------------------------------------------------
(* OrderExecutor: reconciliation *)

Sides == {"buy", "sell"}
Running == [status |-> "running"]

\* dict.get(key, default)
Get(r, key, default) == IF key \in DOMAIN r THEN r[key] ELSE default

is_success(res) == res.status = "COMPLETE"
is_partial(res) == res.status = "PARTIAL"

\* abs(float(actual) - float(expected)), 0.0 when either is None
_slip(actual, expected) ==
    IF actual.kind = "none" \/ expected.kind = "none" THEN 0
    ELSE Abs(actual.amt - expected.amt)

\* an expected price that is the leg's own price field whatever the order type (a
\* variant of ExpectedPrice)
ExpectedPrice_leg_price(leg, res) == Num(leg.price)

LegPriceOf(res) == Get(res, "price", NonePrice)
ExpectedPrice(leg, res) ==
    IF leg.order_type = "LIMIT" THEN Num(leg.price) ELSE LegPriceOf(res)

slippage_breach(buy_leg, buy_res, sell_leg, sell_res) ==
    \/ _slip(LegPriceOf(buy_res), ExpectedPrice(buy_leg, buy_res)) > MaxSlippagePerLeg
    \/ _slip(LegPriceOf(sell_res), ExpectedPrice(sell_leg, sell_res)) > MaxSlippagePerLeg

\* f"{x:.2f}" if x else "N/A" raises ValueError when x is a non-empty string
FormatRaises(p) == Truthy(p) /\ p.kind = "str"

\* order_executor.py:526-536: the arguments of the slippage log line
BreachLogRaises(buy_leg, buy_res, sell_leg, sell_res) ==
    \/ FormatRaises(ExpectedPrice(buy_leg, buy_res))
    \/ FormatRaises(LegPriceOf(buy_res))
    \/ FormatRaises(ExpectedPrice(sell_leg, sell_res))
    \/ FormatRaises(LegPriceOf(sell_res))

\* order_executor.py:548-549: (sell_price - buy_price) raises TypeError on a string
ProfitRaises(buy_res, sell_res) ==
    /\ Truthy(LegPriceOf(buy_res)) /\ Truthy(LegPriceOf(sell_res))
    /\ (LegPriceOf(buy_res).kind = "str" \/ LegPriceOf(sell_res).kind = "str")

\* _post_execute up to its branch: "raised" (the except clause runs), "success", "failure"
Reconcile(buy_leg, buy_res, sell_leg, sell_res) ==
    LET breach == slippage_breach(buy_leg, buy_res, sell_leg, sell_res)
        buy_ok == is_success(buy_res) /\ ~breach
        sell_ok == is_success(sell_res) /\ ~breach
        has_partial_fill == is_partial(buy_res) \/ is_partial(sell_res)
    IN  IF breach /\ BreachLogRaises(buy_leg, buy_res, sell_leg, sell_res) THEN "raised"
        ELSE IF buy_ok /\ sell_ok /\ ~has_partial_fill
             THEN IF ProfitRaises(buy_res, sell_res) THEN "raised" ELSE "success"
             ELSE "failure"

\* a square-off decided by the reported filled quantity alone, whatever the leg's status
\* (a variant of SquareOff)
SquareOff_by_reported_fill(leg, res) ==
    IF Get(res, "filled_qty", 0) > 0
    THEN << OrderLeg(leg.exchange, leg.symbol, Opposite(leg.side), res.filled_qty,
                     "MARKET", "IOC", 0) >>
    ELSE << >>

\* _failsafe: the square-off leg of one leg, if it gets one
SquareOff(leg, res) ==
    IF res.status \in {"COMPLETE", "PARTIAL"}
    THEN LET filled_qty == Get(res, "filled_qty", 0)
             requested_qty == Get(res, "requested_qty", leg.quantity)
             qty_to_close == IF filled_qty > 0 THEN filled_qty ELSE requested_qty
         IN  IF qty_to_close > 0
             THEN << OrderLeg(leg.exchange, leg.symbol, Opposite(leg.side), qty_to_close,
                              "MARKET", "IOC", 0) >>
             ELSE << >>
    ELSE << >>

\* a failsafe that submits every square-off order a second time (a variant of
\* legs_to_close)
legs_to_close_twice(buy_leg, buy_res, sell_leg, sell_res) ==
    LET once == SquareOff(buy_leg, buy_res) \o SquareOff(sell_leg, sell_res)
    IN  once \o once

legs_to_close(buy_leg, buy_res, sell_leg, sell_res) ==
    SquareOff(buy_leg, buy_res) \o SquareOff(sell_leg, sell_res)

-----------------------------------------------------------------------------
(* OrderExecutor: execute_pair, one call at a time *)

OrderTypes == {"LIMIT", "MARKET"}
\* the signals handed to execute_pair: (symbol, buy exchange), one symbol in both
\* directions (one call is in flight at a time; SafetySpec has the second symbol)
SignalPairs == {<<"SBIN", "NSE">>, <<"SBIN", "BSE">>}
\* signal.quantity: 2 shares, so that a leg can fill in part
LegQuantities == {2}
LimitPrice == [BUY |-> 10010, SELL |-> 10090]

NewAcct == [opens |-> 0, closes |-> 0, records |-> 0, verdict |-> "none",
            failsafe |-> 0, raised |-> FALSE, ret |-> "none"]

\* an execute_pair that marks the symbol open before it asks can_trade, so that a denied
\* call leaves the marker behind (a variant of ExecutePair)
ExecutePair_open_before_gate(symbol, buy_exchange, quantity, order_type, spread) ==
    /\ pc = "idle"
    /\ LET buy_leg == OrderLeg(buy_exchange, symbol, "BUY", quantity, order_type, "IOC",
                               IF order_type = "LIMIT" THEN LimitPrice["BUY"] ELSE 0)
           sell_leg == OrderLeg(OtherExchange(buy_exchange), symbol, "SELL", quantity,
                                order_type, "IOC",
                                IF order_type = "LIMIT" THEN LimitPrice["SELL"] ELSE 0)
       IN  /\ call' = [buy |-> buy_leg, sell |-> sell_leg, spread |-> spread]
           /\ open_symbols' = register_open(open_symbols, symbol)
           /\ IF ~ can_trade(symbol)
              THEN /\ pc' = "returned"
                   /\ acct' = [NewAcct EXCEPT !.ret = "blocked"]
                   /\ UNCHANGED <<results, admitted>>
              ELSE /\ admitted < MaxAttempts \/ failed_fills >= MaxFailedFills
                   /\ admitted' = admitted + 1
                   /\ results' = [s \in Sides |-> Running]
                   /\ acct' = [NewAcct EXCEPT !.opens = 1]
                   /\ pc' = "await_legs"
    /\ venue' = [s \in Sides |-> 0]
    /\ UNCHANGED <<trade_history, failed_fills, now, sm_ret, sq_legs, sq_state, workers>>
    /\ UNCHANGED detector_vars
    /\ UNCHANGED <<engine_vars, concurrent_vars, polling_vars>>

\* execute_pair from its call to its first await: the admission gate, register_open, and
\* both placements handed to the worker pool
ExecutePair(symbol, buy_exchange, quantity, order_type, spread) ==
    /\ pc = "idle"
    /\ LET buy_leg == OrderLeg(buy_exchange, symbol, "BUY", quantity, order_type, "IOC",
                               IF order_type = "LIMIT" THEN LimitPrice["BUY"] ELSE 0)
           sell_leg == OrderLeg(OtherExchange(buy_exchange), symbol, "SELL", quantity,
                                order_type, "IOC",
                                IF order_type = "LIMIT" THEN LimitPrice["SELL"] ELSE 0)
       IN  /\ call' = [buy |-> buy_leg, sell |-> sell_leg, spread |-> spread]
           /\ IF ~ can_trade(symbol)
              THEN /\ pc' = "returned"
                   /\ acct' = [NewAcct EXCEPT !.ret = "blocked"]
                   /\ UNCHANGED <<open_symbols, results, admitted>>
              ELSE \* the bound: it is not needed once the breaker has tripped, when
                   \* nothing is admitted any more
                   /\ admitted < MaxAttempts \/ failed_fills >= MaxFailedFills
                   /\ admitted' = admitted + 1
                   /\ open_symbols' = register_open(open_symbols, symbol)
                   /\ results' = [s \in Sides |-> Running]
                   /\ acct' = [NewAcct EXCEPT !.opens = 1]
                   /\ pc' = "await_legs"
    /\ venue' = [s \in Sides |-> 0]
    /\ UNCHANGED <<trade_history, failed_fills, now, sm_ret, sq_legs, sq_state, workers>>
    /\ UNCHANGED detector_vars
    /\ UNCHANGED <<engine_vars, concurrent_vars, polling_vars>>

\* placements run one after the other, the sell leg only once the buy leg has
\* returned (a variant of PlaceLeg)
PlaceLeg_sell_after_buy(side) ==
    /\ pc = "await_legs"
    /\ results[side] = Running
    /\ side = "sell" => results.buy # Running
    /\ \E out \in {<<place(call[side], env), VenueFilled(env)>> : env \in PlaceEnvs(call[side])} :
          /\ results' = [results EXCEPT ![side] = out[1]]
          /\ venue' = [venue EXCEPT ![side] = out[2]]
    /\ UNCHANGED <<pc, call, sq_legs, sq_state, acct, admitted, workers>>
    /\ UNCHANGED <<safety_vars, detector_vars>>
    /\ UNCHANGED <<engine_vars, concurrent_vars, polling_vars>>

\* a placement that counts its own failure in the SafetyManager from the worker
\* thread (a variant of PlaceLeg)
PlaceLeg_counts_failure(side) ==
    /\ pc = "await_legs"
    /\ results[side] = Running
    /\ \E out \in {<<place(call[side], env), VenueFilled(env)>> : env \in PlaceEnvs(call[side])} :
          /\ results' = [results EXCEPT ![side] = out[1]]
          /\ venue' = [venue EXCEPT ![side] = out[2]]
          /\ failed_fills' = IF out[1].status = "error" THEN failed_fills + 1 ELSE failed_fills
    /\ UNCHANGED <<pc, call, sq_legs, sq_state, acct, admitted, workers>>
    /\ UNCHANGED <<trade_history, open_symbols, now, sm_ret>>
    /\ UNCHANGED detector_vars
    /\ UNCHANGED <<engine_vars, concurrent_vars, polling_vars>>

\* a worker thread runs _place_order(leg) for one leg of the pair
PlaceLeg(side) ==
    /\ pc = "await_legs"
    /\ results[side] = Running
    /\ \E out \in {<<place(call[side], env), VenueFilled(env)>> : env \in PlaceEnvs(call[side])} :
          /\ results' = [results EXCEPT ![side] = out[1]]
          /\ venue' = [venue EXCEPT ![side] = out[2]]
    /\ UNCHANGED <<pc, call, sq_legs, sq_state, acct, admitted, workers>>
    /\ UNCHANGED <<safety_vars, detector_vars>>
    /\ UNCHANGED <<engine_vars, concurrent_vars, polling_vars>>

\* record_trade and register_close, as they end both branches of _post_execute
Settle(success) ==
    /\ trade_history' = record_trade_history(trade_history, now, call.buy.symbol,
                                              call.spread, success)
    /\ failed_fills' = record_trade_failed(failed_fills, success)
    /\ open_symbols' = register_close(open_symbols, call.buy.symbol)
    /\ acct' = [acct EXCEPT !.records = @ + 1,
                            !.verdict = IF success THEN "success" ELSE "failure",
                            !.closes = @ + 1,
                            !.failsafe = IF success THEN @ ELSE @ + 1,
                            !.ret = "summary"]
    /\ pc' = "returned"

\* gather returns both results; _post_execute runs to its end or to _failsafe's await
PostExecute ==
    /\ pc = "await_legs"
    /\ \A s \in Sides : results[s] # Running
    /\ LET verdict == Reconcile(call.buy, results.buy, call.sell, results.sell)
           to_close == legs_to_close(call.buy, results.buy, call.sell, results.sell)
       IN  CASE verdict = "raised" ->
                  /\ open_symbols' = register_close(open_symbols, call.buy.symbol)
                  /\ acct' = [acct EXCEPT !.closes = @ + 1, !.raised = TRUE, !.ret = "summary"]
                  /\ pc' = "returned"
                  /\ UNCHANGED <<trade_history, failed_fills, sq_legs, sq_state>>
              [] verdict = "success" ->
                  /\ Settle(TRUE)
                  /\ UNCHANGED <<sq_legs, sq_state>>
              [] verdict = "failure" /\ to_close = << >> ->
                  /\ Settle(FALSE)
                  /\ UNCHANGED <<sq_legs, sq_state>>
              [] verdict = "failure" /\ to_close # << >> ->
                  /\ sq_legs' = to_close
                  /\ sq_state' = [i \in DOMAIN to_close |-> "running"]
                  /\ acct' = [acct EXCEPT !.failsafe = @ + 1]
                  /\ pc' = "await_failsafe"
                  /\ UNCHANGED <<trade_history, failed_fills, open_symbols>>
    /\ UNCHANGED <<now, sm_ret, call, results, venue, admitted, workers>>
    /\ UNCHANGED detector_vars
    /\ UNCHANGED <<engine_vars, concurrent_vars, polling_vars>>

\* _failsafe's log line for the result of one square-off placement
FailsafeLogged(status) ==
    IF status = "raised" THEN "failed"
    ELSE IF status = "COMPLETE" THEN "executed"
    ELSE "incomplete"

\* a square-off that is submitted only if the admission gate lets the symbol trade (a
\* variant of PlaceSquareOff)
PlaceSquareOff_gated(i) ==
    /\ pc = "await_failsafe"
    /\ i \in DOMAIN sq_state
    /\ sq_state[i] = "running"
    /\ can_trade(sq_legs[i].symbol)
    /\ \E status \in {_place_order(sq_legs[i], env).status : env \in PlaceEnvs(sq_legs[i])} :
          sq_state' = [sq_state EXCEPT ![i] = FailsafeLogged(status)]
    /\ UNCHANGED <<pc, call, results, venue, sq_legs, acct, admitted, workers>>
    /\ UNCHANGED <<safety_vars, detector_vars>>
    /\ UNCHANGED <<engine_vars, concurrent_vars, polling_vars>>

\* a worker thread runs _place_order for one square-off leg; its result is only logged
PlaceSquareOff(i) ==
    /\ pc = "await_failsafe"
    /\ i \in DOMAIN sq_state
    /\ sq_state[i] = "running"
    \* whatever the placement returns or raises is only logged: "Failsafe order
    \* executed" (COMPLETE), "failed" (an exception) or "incomplete" (anything else)
    /\ \E status \in {_place_order(sq_legs[i], env).status : env \in PlaceEnvs(sq_legs[i])} :
          sq_state' = [sq_state EXCEPT ![i] = FailsafeLogged(status)]
    /\ UNCHANGED <<pc, call, results, venue, sq_legs, acct, admitted, workers>>
    /\ UNCHANGED <<safety_vars, detector_vars>>
    /\ UNCHANGED <<engine_vars, concurrent_vars, polling_vars>>

\* a _post_execute that records the failure and releases the marker as soon as one
\* square-off has returned (a variant of FailsafeDone)
FailsafeDone_after_first ==
    /\ pc = "await_failsafe"
    /\ \E i \in DOMAIN sq_state : sq_state[i] # "running"
    /\ trade_history' = record_trade_history(trade_history, now, call.buy.symbol,
                                              call.spread, FALSE)
    /\ failed_fills' = record_trade_failed(failed_fills, FALSE)
    /\ open_symbols' = register_close(open_symbols, call.buy.symbol)
    /\ acct' = [acct EXCEPT !.records = @ + 1, !.verdict = "failure",
                            !.closes = @ + 1, !.ret = "summary"]
    /\ pc' = "returned"
    /\ UNCHANGED <<now, sm_ret, call, results, venue, sq_legs, sq_state, admitted, workers>>
    /\ UNCHANGED detector_vars
    /\ UNCHANGED <<engine_vars, concurrent_vars, polling_vars>>

\* _failsafe's gather returns; _post_execute records the failure and releases the marker
FailsafeDone ==
    /\ pc = "await_failsafe"
    /\ \A i \in DOMAIN sq_state : sq_state[i] # "running"
    /\ trade_history' = record_trade_history(trade_history, now, call.buy.symbol,
                                              call.spread, FALSE)
    /\ failed_fills' = record_trade_failed(failed_fills, FALSE)
    /\ open_symbols' = register_close(open_symbols, call.buy.symbol)
    /\ acct' = [acct EXCEPT !.records = @ + 1, !.verdict = "failure",
                            !.closes = @ + 1, !.ret = "summary"]
    /\ pc' = "returned"
    /\ UNCHANGED <<now, sm_ret, call, results, venue, sq_legs, sq_state, admitted, workers>>
    /\ UNCHANGED detector_vars
    /\ UNCHANGED <<engine_vars, concurrent_vars, polling_vars>>

\* the caller takes the return value; the call's locals are gone
Return ==
    /\ pc = "returned"
    /\ pc' = "idle"
    /\ call' = NoValue
    /\ results' = << >>
    /\ venue' = << >>
    /\ sq_legs' = << >>
    /\ sq_state' = << >>
    /\ acct' = NoValue
    /\ UNCHANGED <<admitted, workers>>
    /\ UNCHANGED <<safety_vars, detector_vars>>
    /\ UNCHANGED <<engine_vars, concurrent_vars, polling_vars>>

\* the placements handed to the worker pool whose results the call is waiting for
PendingPlacements ==
    IF pc = "await_legs"
    THEN (IF results.buy = Running THEN <<call.buy>> ELSE << >>)
         \o (IF results.sell = Running THEN <<call.sell>> ELSE << >>)
    ELSE SelectSeq(sq_legs, LAMBDA leg :
             \E i \in DOMAIN sq_legs : sq_legs[i] = leg /\ sq_state[i] = "running")

\* a cancellation that stops the worker threads where they are (a variant of
\* CancelPlacement)
CancelPlacement_aborts(leg, started) ==
    [leg |-> leg, state |-> IF started THEN "aborted" ELSE "not_started"]

\* Future.cancel() on a placement of the pool: a work item that no worker thread has
\* taken from the pool's queue yet is cancelled and never runs; one that a thread is
\* running cannot be cancelled and the thread carries on
CancelPlacement(leg, started) ==
    [leg |-> leg, state |-> IF started THEN "running" ELSE "not_started"]

\* a cancellation that execute_pair's handler answers by releasing the marker (a
\* variant of Cancel)
Cancel_releases_marker ==
    /\ pc \in {"await_legs", "await_failsafe"}
    /\ pc' = "cancelled"
    /\ acct' = [acct EXCEPT !.ret = "cancelled", !.closes = @ + 1]
    /\ open_symbols' = register_close(open_symbols, call.buy.symbol)
    /\ results' = << >>
    /\ venue' = << >>
    /\ sq_legs' = << >>
    /\ sq_state' = << >>
    /\ \E started \in [DOMAIN PendingPlacements -> BOOLEAN] :
          workers' = [i \in DOMAIN PendingPlacements |->
                         CancelPlacement(PendingPlacements[i], started[i])]
    /\ UNCHANGED <<call, admitted>>
    /\ UNCHANGED <<trade_history, failed_fills, now, sm_ret>>
    /\ UNCHANGED detector_vars
    /\ UNCHANGED <<engine_vars, concurrent_vars, polling_vars>>

\* CancelledError is thrown into execute_pair at one of its two awaits; it is not an
\* Exception, so neither except clause runs and the call's frame is unwound: nothing is
\* reconciled, recorded or released. The engine is shutting down: no call follows. The
\* gather that is cancelled cancels the futures of the placements it waits for.
Cancel ==
    /\ pc \in {"await_legs", "await_failsafe"}
    /\ pc' = "cancelled"
    /\ acct' = [acct EXCEPT !.ret = "cancelled"]
    /\ results' = << >>
    /\ venue' = << >>
    /\ sq_legs' = << >>
    /\ sq_state' = << >>
    /\ \E started \in [DOMAIN PendingPlacements -> BOOLEAN] :
          workers' = [i \in DOMAIN PendingPlacements |->
                         CancelPlacement(PendingPlacements[i], started[i])]
    /\ UNCHANGED <<call, admitted>>
    /\ UNCHANGED <<safety_vars, detector_vars>>
    /\ UNCHANGED <<engine_vars, concurrent_vars, polling_vars>>

\* a worker thread finishes the _place_order it was running when the call was
\* cancelled; nobody takes its result
PlaceAfterCancel(i) ==
    /\ pc = "cancelled"
    /\ i \in DOMAIN workers
    /\ workers[i].state = "running"
    /\ \E status \in {_place_order(workers[i].leg, env).status :
                          env \in PlaceEnvs(workers[i].leg)} :
          workers' = [workers EXCEPT ![i].state = status]
    /\ UNCHANGED <<pc, call, results, venue, sq_legs, sq_state, acct, admitted>>
    /\ UNCHANGED <<safety_vars, detector_vars>>
    /\ UNCHANGED <<engine_vars, concurrent_vars, polling_vars>>

-----------------------------------------------------------------------------
(* DecisionEngine *)

\* what datetime.now().time() returns when _market_open asks: the second before the
\* window, its first and its last second, and the second after it
ClockReadings == {TradingStart - 1, TradingStart, TradingEnd, TradingEnd + 1}

\* two books a venue can quote: bought at the ask of the first and sold at the bid of
\* the second, a share earns 140 paise, more than min_spread
LowQuote ==
    [ltp |-> 10005, best_bid |-> 10000, best_ask |-> 10010, bid_qty |-> 1, ask_qty |-> 1]
HighQuote ==
    [ltp |-> 10155, best_bid |-> 10150, best_ask |-> 10160, bid_qty |-> 1, ask_qty |-> 1]

\* Tick (the depth is not read by the engine's decisions)
Tick(symbol, exchange, q) ==
    [symbol |-> symbol, exchange |-> exchange, ltp |-> q.ltp,
     best_bid |-> q.best_bid, best_ask |-> q.best_ask,
     bid_qty |-> q.bid_qty, ask_qty |-> q.ask_qty]

\* the ticks the feed can deliver: NSE quotes the first book, BSE either of them, so
\* that a pair of ticks of one symbol gives a signal or none
FeedTicks ==
    {Tick(symbol, "NSE", LowQuote) : symbol \in Symbols}
    \cup {Tick(symbol, "BSE", q) : symbol \in Symbols, q \in {LowQuote, HighQuote}}

\* the telemetry hook returns or raises; an exception can also come out of
\* _build_snapshot or out of the detector
HookBehaviours == {"returns", "raises"}
Faults == {"none", "build_snapshot", "evaluate"}

\* a trading window without its last instant (a variant of _market_open)
_market_open_half_open(t) == TradingStart <= t /\ t < TradingEnd

_market_open(t) == TradingStart <= t /\ t <= TradingEnd

\* bucket[tick.symbol] = tick
DictSet(d, key, value) == [k \in DOMAIN d \cup {key} |-> IF k = key THEN value ELSE d[k]]

\* self.nse_ticks after the tick is stored: the NSE bucket takes the ticks of NSE
nse_ticks_after(ticks, tick) ==
    IF tick.exchange = "NSE" THEN DictSet(ticks, tick.symbol, tick) ELSE ticks

\* a BSE bucket that takes every tick (a variant of bse_ticks_after)
bse_ticks_after_every_tick(ticks, tick) == DictSet(ticks, tick.symbol, tick)

\* self.bse_ticks after the tick is stored: the BSE bucket takes every other tick
bse_ticks_after(ticks, tick) ==
    IF tick.exchange = "NSE" THEN ticks ELSE DictSet(ticks, tick.symbol, tick)

\* a snapshot built as soon as one venue has a tick, the missing side taken from the
\* other venue (a variant of _build_snapshot)
_build_snapshot_one_venue(nse_map, bse_map, symbol) ==
    IF symbol \notin DOMAIN nse_map /\ symbol \notin DOMAIN bse_map
    THEN NoValue
    ELSE LET nse == IF symbol \in DOMAIN nse_map THEN nse_map[symbol] ELSE bse_map[symbol]
             bse == IF symbol \in DOMAIN bse_map THEN bse_map[symbol] ELSE nse_map[symbol]
         IN  [symbol |-> symbol, nse_ltp |-> nse.ltp, bse_ltp |-> bse.ltp,
              nse_bid |-> nse.best_bid, nse_ask |-> nse.best_ask,
              bse_bid |-> bse.best_bid, bse_ask |-> bse.best_ask,
              nse_bid_qty |-> nse.bid_qty, nse_ask_qty |-> nse.ask_qty,
              bse_bid_qty |-> bse.bid_qty, bse_ask_qty |-> bse.ask_qty]

_build_snapshot(nse_map, bse_map, symbol) ==
    IF symbol \notin DOMAIN nse_map \/ symbol \notin DOMAIN bse_map
    THEN NoValue
    ELSE LET nse == nse_map[symbol]
             bse == bse_map[symbol]
         IN  [symbol |-> symbol, nse_ltp |-> nse.ltp, bse_ltp |-> bse.ltp,
              nse_bid |-> nse.best_bid, nse_ask |-> nse.best_ask,
              bse_bid |-> bse.best_bid, bse_ask |-> bse.best_ask,
              nse_bid_qty |-> nse.bid_qty, nse_ask_qty |-> nse.ask_qty,
              bse_bid_qty |-> bse.bid_qty, bse_ask_qty |-> bse.ask_qty]

\* a hook called outside any try (a variant of GuardedHook)
GuardedHook_unguarded(hook) == IF hook = "raises" THEN "raised" ELSE "returned"

\* the hook called inside its own try: its exception is logged and goes no further
GuardedHook(hook) == IF hook = "raises" THEN "caught" ELSE "returned"

\* an exception that ends the loop (a variant of OnException)
OnException_ends_loop == "finally"

\* where run goes when an iteration raises an Exception: the handler logs it and
\* sleeps a second before the next iteration
OnException == "sleep"

\* a callback started and not awaited (a variant of AwaitCallback)
AwaitCallback_detached == "next_tick"

\* where run goes when it has called the callback: it awaits it
AwaitCallback == "callback"

\* no tick was pulled yet
NoIteration ==
    [n |-> 0, tick |-> NoValue, t |-> TradingStart - 1, open |-> FALSE,
     snapshot |-> NoValue, hook |-> "not_called", evaluated |-> FALSE,
     signal |-> NoValue, called |-> FALSE, raised |-> FALSE]

\* one iteration of the loop from the tick that next_tick returned to the next await:
\* what it did, given the buckets before it, the clock reading t, the hook's behaviour
\* and the place where an exception comes up
Iterate(tick, t, hook, fault) ==
    LET nse_map == nse_ticks_after(nse_ticks, tick)
        bse_map == bse_ticks_after(bse_ticks, tick)
        base == [NoIteration EXCEPT !.n = Len(received) + 1, !.tick = tick, !.t = t,
                                    !.open = _market_open(t)]
        snap == _build_snapshot(nse_map, bse_map, tick.symbol)
        hooked == [base EXCEPT !.snapshot = snap, !.hook = GuardedHook(hook)]
        sig == evaluate(snap)
    IN  IF ~ base.open THEN base
        ELSE IF fault = "build_snapshot" THEN [base EXCEPT !.raised = TRUE]
        ELSE IF snap = NoValue THEN base
        ELSE IF hooked.hook = "raised" THEN [hooked EXCEPT !.raised = TRUE]
        ELSE IF fault = "evaluate" THEN [hooked EXCEPT !.evaluated = TRUE, !.raised = TRUE]
        ELSE [hooked EXCEPT !.evaluated = TRUE, !.signal = sig, !.called = (sig # NoValue)]

\* run is called: it starts the heartbeat task and enters the loop
StartRun ==
    /\ run_pc = "created"
    /\ run_pc' = "next_tick"
    /\ heartbeat_task' = "running"
    /\ UNCHANGED <<nse_ticks, bse_ticks, queue, received, callback, cancel_requested,
                   errors, iteration>>
    /\ UNCHANGED <<safety_vars, detector_vars, executor_vars, concurrent_vars, polling_vars>>
    /\ UNCHANGED heartbeat_log

\* the feed puts a tick on its queue
TickArrives(tick) ==
    /\ Len(received) + Len(queue) < MaxTicks
    /\ run_pc # "exited"
    /\ queue' = Append(queue, tick)
    /\ UNCHANGED <<nse_ticks, bse_ticks, received, run_pc, heartbeat_task, callback,
                   cancel_requested, errors, iteration>>
    /\ UNCHANGED <<safety_vars, detector_vars, executor_vars, concurrent_vars, polling_vars>>
    /\ UNCHANGED heartbeat_log

\* next_tick returns the oldest tick of the queue and the loop runs with it to its
\* next await: next_tick again, the callback, or the handler's sleep
ProcessTick(t, hook, fault) ==
    /\ run_pc = "next_tick"
    /\ queue # << >>
    /\ t >= iteration.t
    /\ LET tick == Head(queue)
           it == Iterate(tick, t, hook, fault)
       IN  /\ queue' = Tail(queue)
           /\ received' = Append(received, tick)
           /\ nse_ticks' = nse_ticks_after(nse_ticks, tick)
           /\ bse_ticks' = bse_ticks_after(bse_ticks, tick)
           /\ iteration' = it
           /\ errors' = IF it.raised THEN errors + 1 ELSE errors
           /\ run_pc' = IF it.raised THEN OnException
                        ELSE IF it.called THEN AwaitCallback
                        ELSE "next_tick"
           /\ callback' = IF it.called THEN "running" ELSE callback
    /\ UNCHANGED <<heartbeat_task, cancel_requested>>
    /\ UNCHANGED <<safety_vars, detector_vars, executor_vars, concurrent_vars, polling_vars>>
    /\ UNCHANGED heartbeat_log

\* the callback returns: on_signal has awaited execute_pair to its end
CallbackReturns ==
    /\ callback = "running"
    /\ callback' = "idle"
    /\ run_pc' = IF run_pc = "callback" THEN "next_tick" ELSE run_pc
    /\ UNCHANGED <<nse_ticks, bse_ticks, queue, received, heartbeat_task,
                   cancel_requested, errors, iteration>>
    /\ UNCHANGED <<safety_vars, detector_vars, executor_vars, concurrent_vars, polling_vars>>
    /\ UNCHANGED heartbeat_log

\* the callback raises an Exception into the loop
CallbackRaises ==
    /\ callback = "running"
    /\ run_pc = "callback"
    /\ callback' = "idle"
    /\ run_pc' = OnException
    /\ errors' = errors + 1
    /\ iteration' = [iteration EXCEPT !.raised = TRUE]
    /\ UNCHANGED <<nse_ticks, bse_ticks, queue, received, heartbeat_task, cancel_requested>>
    /\ UNCHANGED <<safety_vars, detector_vars, executor_vars, concurrent_vars, polling_vars>>
    /\ UNCHANGED heartbeat_log

\* the handler's sleep is over
SleepDone ==
    /\ run_pc = "sleep"
    /\ run_pc' = "next_tick"
    /\ UNCHANGED <<nse_ticks, bse_ticks, queue, received, heartbeat_task, callback,
                   cancel_requested, errors, iteration>>
    /\ UNCHANGED <<safety_vars, detector_vars, executor_vars, concurrent_vars, polling_vars>>
    /\ UNCHANGED heartbeat_log

\* the run task is cancelled at one of its awaits: CancelledError comes up there (it is
\* thrown into the callback if that is what run awaits), is re-raised by the loop's
\* handler or passes the handler that sleeps, and the finally clause cancels the
\* heartbeat task and awaits it
CancelRun ==
    /\ run_pc \in {"next_tick", "callback", "sleep"}
    /\ cancel_requested' = TRUE
    /\ run_pc' = "finally"
    /\ heartbeat_task' = "cancelling"
    /\ callback' = "idle"
    /\ UNCHANGED <<nse_ticks, bse_ticks, queue, received, errors, iteration>>
    /\ UNCHANGED <<safety_vars, detector_vars, executor_vars, concurrent_vars, polling_vars>>
    /\ UNCHANGED heartbeat_log

\* the heartbeat task gets its CancelledError at its sleep, re-raises it and is done
HeartbeatCancelled ==
    /\ heartbeat_task = "cancelling"
    /\ heartbeat_task' = "cancelled"
    /\ UNCHANGED <<nse_ticks, bse_ticks, queue, received, run_pc, callback,
                   cancel_requested, errors, iteration>>
    /\ UNCHANGED <<safety_vars, detector_vars, executor_vars, concurrent_vars, polling_vars>>
    /\ UNCHANGED heartbeat_log

\* self.symbols, in the order _log_heartbeat scans them
WatchedSymbols == <<"SBIN", "INFY">>
NoBest == [symbol |-> "none", nse |-> 0, bse |-> 0, spread |-> 0]

\* the loop of _log_heartbeat from symbol i on: the first symbol with the strictly
\* largest |nse_ltp - bse_ltp| among those with a snapshot
RECURSIVE BestSpread(_, _, _, _)
BestSpread(nse_map, bse_map, i, best) ==
    IF i > Len(WatchedSymbols) THEN best
    ELSE LET symbol == WatchedSymbols[i]
             snap == _build_snapshot(nse_map, bse_map, symbol)
         IN  IF snap # NoValue /\ Abs(snap.nse_ltp - snap.bse_ltp) > best.spread
             THEN BestSpread(nse_map, bse_map, i + 1,
                             [symbol |-> symbol, nse |-> snap.nse_ltp, bse |-> snap.bse_ltp,
                              spread |-> Abs(snap.nse_ltp - snap.bse_ltp)])
             ELSE BestSpread(nse_map, bse_map, i + 1, best)

\* the line _log_heartbeat writes
_log_heartbeat(nse_map, bse_map) ==
    LET best == BestSpread(nse_map, bse_map, 1, NoBest)
    IN  IF best.symbol # "none"
        THEN [msg |-> "Monitoring", nse |-> best.nse, bse |-> best.bse, spread |-> best.spread]
        ELSE [msg |-> "waiting for data"]

\* a heartbeat that drops the ticks it has reported (a variant of HeartbeatLogs)
HeartbeatLogs_clears_ticks ==
    /\ heartbeat_task = "running"
    /\ run_pc \in {"next_tick", "callback", "sleep"}
    /\ heartbeat_log' = _log_heartbeat(nse_ticks, bse_ticks)
    /\ nse_ticks' = << >>
    /\ bse_ticks' = << >>
    /\ UNCHANGED <<queue, received, run_pc, heartbeat_task, callback, cancel_requested,
                   errors, iteration>>
    /\ UNCHANGED <<safety_vars, detector_vars, executor_vars, concurrent_vars, polling_vars>>

\* the heartbeat task runs _log_heartbeat, when it starts and after each sleep, at a
\* moment the main loop is suspended at one of its awaits
HeartbeatLogs ==
    /\ heartbeat_task = "running"
    /\ run_pc \in {"next_tick", "callback", "sleep"}
    /\ heartbeat_log' = _log_heartbeat(nse_ticks, bse_ticks)
    /\ UNCHANGED <<nse_ticks, bse_ticks, queue, received, run_pc, heartbeat_task, callback,
                   cancel_requested, errors, iteration>>
    /\ UNCHANGED <<safety_vars, detector_vars, executor_vars, concurrent_vars, polling_vars>>

\* a run that leaves without awaiting the heartbeat task (a variant of RunExits)
RunExits_without_join ==
    /\ run_pc = "finally"
    /\ run_pc' = "exited"
    /\ UNCHANGED <<nse_ticks, bse_ticks, queue, received, heartbeat_task, callback,
                   cancel_requested, errors, iteration>>
    /\ UNCHANGED <<safety_vars, detector_vars, executor_vars, concurrent_vars, polling_vars>>
    /\ UNCHANGED heartbeat_log

\* await heartbeat_task returns once the task is done; run leaves with CancelledError
RunExits ==
    /\ run_pc = "finally"
    /\ heartbeat_task = "cancelled"
    /\ run_pc' = "exited"
    /\ UNCHANGED <<nse_ticks, bse_ticks, queue, received, heartbeat_task, callback,
                   cancel_requested, errors, iteration>>
    /\ UNCHANGED <<safety_vars, detector_vars, executor_vars, concurrent_vars, polling_vars>>
    /\ UNCHANGED heartbeat_log

-----------------------------------------------------------------------------
(* OrderExecutor: execute_pair, several calls on one executor *)

\* a call that has not started: it has no symbol yet
IdleCall == [pc |-> "idle", symbol |-> "none"]
\* where a call holds its symbol's marker: at one of its awaits, or cancelled there
InFlight == {"await_legs", "await_failsafe", "cancelled"}
\* how _post_execute ends for the results the venue produced: recorded as a success,
\* recorded as a failure with nothing to square off, the failsafe awaited, or an
\* exception caught by its except clause
Outcomes == {"success", "failure", "failsafe", "raised"}

\* an execute_pair that is suspended between can_trade and register_open, so that other
\* calls run in between (a variant of Admit)
Admit_suspended(c, symbol) ==
    /\ \/ /\ calls[c].pc = "idle"
          /\ calls' = [calls EXCEPT ![c] = [pc |-> IF can_trade(symbol) THEN "admitting"
                                                   ELSE "blocked",
                                            symbol |-> symbol]]
          /\ UNCHANGED open_symbols
       \/ /\ calls[c].pc = "admitting"
          /\ calls[c].symbol = symbol
          /\ open_symbols' = register_open(open_symbols, symbol)
          /\ calls' = [calls EXCEPT ![c].pc = "await_legs"]
    /\ UNCHANGED <<trade_history, failed_fills, now, sm_ret>>
    /\ UNCHANGED <<detector_vars, executor_vars>>
    /\ UNCHANGED <<engine_vars, polling_vars>>

\* execute_pair up to its first await: the gate, and register_open if it lets the call in
Admit(c, symbol) ==
    /\ calls[c].pc = "idle"
    /\ IF ~ can_trade(symbol)
       THEN /\ calls' = [calls EXCEPT ![c] = [pc |-> "blocked", symbol |-> symbol]]
            /\ UNCHANGED open_symbols
       ELSE /\ open_symbols' = register_open(open_symbols, symbol)
            /\ calls' = [calls EXCEPT ![c] = [pc |-> "await_legs", symbol |-> symbol]]
    /\ UNCHANGED <<trade_history, failed_fills, now, sm_ret>>
    /\ UNCHANGED <<detector_vars, executor_vars>>
    /\ UNCHANGED <<engine_vars, polling_vars>>

\* both placements of call c have returned and _post_execute runs up to its next await
\* or to its end
LegsReturned(c, outcome) ==
    /\ calls[c].pc = "await_legs"
    /\ CASE outcome = "failsafe" ->
              /\ calls' = [calls EXCEPT ![c].pc = "await_failsafe"]
              /\ UNCHANGED <<trade_history, failed_fills, open_symbols>>
         [] outcome = "raised" ->
              /\ open_symbols' = register_close(open_symbols, calls[c].symbol)
              /\ calls' = [calls EXCEPT ![c].pc = "returned"]
              /\ UNCHANGED <<trade_history, failed_fills>>
         [] outcome \in {"success", "failure"} ->
              /\ trade_history' = record_trade_history(trade_history, now, calls[c].symbol,
                                                        150, outcome = "success")
              /\ failed_fills' = record_trade_failed(failed_fills, outcome = "success")
              /\ open_symbols' = register_close(open_symbols, calls[c].symbol)
              /\ calls' = [calls EXCEPT ![c].pc = "returned"]
    /\ UNCHANGED <<now, sm_ret>>
    /\ UNCHANGED <<detector_vars, executor_vars>>
    /\ UNCHANGED <<engine_vars, polling_vars>>

\* the square-offs of call c have returned: the failure is recorded, the marker released
FailsafeReturned(c) ==
    /\ calls[c].pc = "await_failsafe"
    /\ trade_history' = record_trade_history(trade_history, now, calls[c].symbol, 150, FALSE)
    /\ failed_fills' = record_trade_failed(failed_fills, FALSE)
    /\ open_symbols' = register_close(open_symbols, calls[c].symbol)
    /\ calls' = [calls EXCEPT ![c].pc = "returned"]
    /\ UNCHANGED <<now, sm_ret>>
    /\ UNCHANGED <<detector_vars, executor_vars>>
    /\ UNCHANGED <<engine_vars, polling_vars>>

\* CancelledError is thrown into call c at one of its awaits: nothing is released
CancelCall(c) ==
    /\ calls[c].pc \in {"await_legs", "await_failsafe"}
    /\ calls' = [calls EXCEPT ![c].pc = "cancelled"]
    /\ UNCHANGED <<safety_vars, detector_vars, executor_vars>>
    /\ UNCHANGED <<engine_vars, polling_vars>>

-----------------------------------------------------------------------------
(* OrderExecutor: _wait_for_completion, step by step *)

TerminalStatuses == {"COMPLETE", "REJECTED", "CANCELLED"}
\* what one orderBook() call of the polling loop yields for the order: its mapped
\* status, no usable answer ("failed": an error response, or the order is not listed),
\* or an exception ("raised")
PollObservations == TerminalStatuses \cup {"PENDING", "OPEN", "failed", "raised"}
\* what _get_order_details reports as the status (UNKNOWN: the fetch failed or raised)
DetailStatuses == TerminalStatuses \cup {"PENDING", "OPEN", "UNKNOWN"}
\* what cancelOrder answers: a dict with status and data, a dict without, a string
\* containing "success" or "cancelled", another string, another type, or an exception
CancelResponses == {"dict_ok", "dict_error", "str_success", "str_other", "other", "raises"}

NotPolling == [pc |-> "idle", is_ioc |-> FALSE, seen |-> << >>, final |-> << >>,
               cancels |-> 0, cancel_resp |-> "none", ret |-> "none"]

\* _cancel_order: True for a positive dict or string answer, False for everything else
_cancel_order(resp) == resp \in {"dict_ok", "str_success"}

\* _place_order calls _wait_for_completion(order_id, timeout=3.0, is_ioc)
StartPolling(is_ioc) ==
    /\ poll.pc = "idle"
    /\ poll' = [poll EXCEPT !.pc = "polling", !.is_ioc = is_ioc]
    /\ UNCHANGED <<safety_vars, detector_vars, executor_vars, engine_vars, concurrent_vars>>

\* a poll that lets the exception of a fetch out of the loop (a variant of Poll)
Poll_raise_escapes(obs) ==
    /\ poll.pc = "polling"
    /\ Len(poll.seen) < MaxPolls
    /\ poll' = IF obs \in TerminalStatuses \cup {"raised"}
               THEN [poll EXCEPT !.seen = Append(@, obs), !.pc = "done", !.ret = obs]
               ELSE [poll EXCEPT !.seen = Append(@, obs)]
    /\ UNCHANGED <<safety_vars, detector_vars, executor_vars, engine_vars, concurrent_vars>>

\* one pass of the loop before the deadline: fetch the order book, return a terminal
\* status, otherwise (a failed or raising fetch included) sleep and go round again
Poll(obs) ==
    /\ poll.pc = "polling"
    /\ Len(poll.seen) < MaxPolls
    /\ poll' = IF obs \in TerminalStatuses
               THEN [poll EXCEPT !.seen = Append(@, obs), !.pc = "done", !.ret = obs]
               ELSE [poll EXCEPT !.seen = Append(@, obs)]
    /\ UNCHANGED <<safety_vars, detector_vars, executor_vars, engine_vars, concurrent_vars>>

\* time.time() has reached the deadline when the loop condition is tested; every pass
\* takes at least the sleep, so this happens after MaxPolls passes at the latest
DeadlinePasses ==
    /\ poll.pc = "polling"
    /\ Len(poll.seen) >= 1
    /\ poll' = [poll EXCEPT !.pc = "timed_out"]
    /\ UNCHANGED <<safety_vars, detector_vars, executor_vars, engine_vars, concurrent_vars>>

\* a final check that waits and re-checks whatever the order's validity (a variant of
\* FinalDetails)
FinalDetails_any_validity(status) ==
    /\ poll.pc = "timed_out"
    /\ poll' = IF status \in {"PENDING", "OPEN"}
               THEN [poll EXCEPT !.final = Append(@, status), !.pc = "grace"]
               ELSE [poll EXCEPT !.final = Append(@, status), !.pc = "done", !.ret = status]
    /\ UNCHANGED <<safety_vars, detector_vars, executor_vars, engine_vars, concurrent_vars>>

\* after the loop: _get_order_details; an IOC order still PENDING or OPEN gets the grace
\* delay, every other status is returned
FinalDetails(status) ==
    /\ poll.pc = "timed_out"
    /\ poll' = IF poll.is_ioc /\ status \in {"PENDING", "OPEN"}
               THEN [poll EXCEPT !.final = Append(@, status), !.pc = "grace"]
               ELSE [poll EXCEPT !.final = Append(@, status), !.pc = "done", !.ret = status]
    /\ UNCHANGED <<safety_vars, detector_vars, executor_vars, engine_vars, concurrent_vars>>

\* after the grace delay: _get_order_details again; still PENDING or OPEN leads to the
\* explicit cancellation, every other status is returned
Recheck(status) ==
    /\ poll.pc = "grace"
    /\ poll' = IF status \in {"PENDING", "OPEN"}
               THEN [poll EXCEPT !.final = Append(@, status), !.pc = "cancelling"]
               ELSE [poll EXCEPT !.final = Append(@, status), !.pc = "done", !.ret = status]
    /\ UNCHANGED <<safety_vars, detector_vars, executor_vars, engine_vars, concurrent_vars>>

\* _cancel_order is called once; its answer decides between CANCELLED and PENDING
CancelOrder(resp) ==
    /\ poll.pc = "cancelling"
    /\ poll' = [poll EXCEPT !.cancels = @ + 1, !.cancel_resp = resp, !.pc = "done",
                            !.ret = IF _cancel_order(resp) THEN "CANCELLED" ELSE "PENDING"]
    /\ UNCHANGED <<safety_vars, detector_vars, executor_vars, engine_vars, concurrent_vars>>

-----------------------------------------------------------------------------
(* Specifications *)

Init ==
    /\ trade_history = << >>
    /\ open_symbols = << >>
    /\ failed_fills = 0
    /\ now = 0
    /\ sm_ret = NoValue
    /\ det_min_spread = MinSpread
    /\ per_symbol_qty = << >>
    /\ snapshot = NoValue
    /\ signal = NotEvaluated
    /\ pc = "idle"
    /\ call = NoValue
    /\ results = << >>
    /\ venue = << >>
    /\ sq_legs = << >>
    /\ sq_state = << >>
    /\ acct = NoValue
    /\ admitted = 0
    /\ workers = << >>
    /\ nse_ticks = << >>
    /\ bse_ticks = << >>
    /\ queue = << >>
    /\ received = << >>
    /\ run_pc = "created"
    /\ heartbeat_task = "none"
    /\ callback = "idle"
    /\ cancel_requested = FALSE
    /\ errors = 0
    /\ iteration = NoIteration
    /\ calls = [c \in Calls |-> IdleCall]
    /\ poll = NotPolling
    /\ heartbeat_log = NoValue

Next ==
    \/ \E sig \in SignalPairs, quantity \in LegQuantities, order_type \in OrderTypes,
          spread \in SpreadArgs :
             ExecutePair(sig[1], sig[2], quantity, order_type, spread)
    \/ \E side \in Sides : PlaceLeg(side)
    \/ PostExecute
    \/ \E i \in {1, 2} : PlaceSquareOff(i)
    \/ FailsafeDone
    \/ Return
    \/ Cancel
    \/ \E i \in {1, 2} : PlaceAfterCancel(i)

Spec == Init /\ [][Next]_vars

SafetyNext ==
    \/ \E s \in Symbols : SM_CanTrade(s)
    \/ \E s \in Symbols : SM_RegisterOpen(s)
    \/ \E s \in Symbols : SM_RegisterClose(s)
    \/ \E s \in Symbols, sp \in SpreadArgs, ok \in BOOLEAN : SM_RecordTrade(s, sp, ok)
    \/ SM_Tick

SafetySpec == Init /\ [][SafetyNext]_vars

DetectorInit ==
    /\ trade_history = << >>
    /\ open_symbols = << >>
    /\ failed_fills = 0
    /\ now = 0
    /\ sm_ret = NoValue
    /\ det_min_spread \in DetectorThresholds
    /\ per_symbol_qty \in UNION {[S -> {2}] : S \in SUBSET Symbols}
    /\ snapshot \in QuoteSnapshots
    /\ signal = NotEvaluated
    /\ pc = "idle"
    /\ call = NoValue
    /\ results = << >>
    /\ venue = << >>
    /\ sq_legs = << >>
    /\ sq_state = << >>
    /\ acct = NoValue
    /\ admitted = 0
    /\ workers = << >>
    /\ nse_ticks = << >>
    /\ bse_ticks = << >>
    /\ queue = << >>
    /\ received = << >>
    /\ run_pc = "created"
    /\ heartbeat_task = "none"
    /\ callback = "idle"
    /\ cancel_requested = FALSE
    /\ errors = 0
    /\ iteration = NoIteration
    /\ calls = [c \in Calls |-> IdleCall]
    /\ poll = NotPolling
    /\ heartbeat_log = NoValue

DetectorNext == Evaluate

DetectorSpec == DetectorInit /\ [][DetectorNext]_vars

\* The executor fed with signals of one symbol, under weak fairness: a step that can be
\* taken is eventually taken (the event loop keeps running the engine's consumer, the
\* worker pool keeps running the placements)
BreakerNext ==
    \/ \E order_type \in OrderTypes, spread \in SpreadArgs :
             ExecutePair("SBIN", "NSE", 2, order_type, spread)
    \/ \E side \in Sides : PlaceLeg(side)
    \/ PostExecute
    \/ \E i \in {1, 2} : PlaceSquareOff(i)
    \/ FailsafeDone
    \/ Return
    \/ Cancel
    \/ \E i \in {1, 2} : PlaceAfterCancel(i)

BreakerSpec == Init /\ [][BreakerNext]_vars /\ WF_vars(BreakerNext)

\* The engine: the feed delivers ticks, run consumes them one by one, and the run task
\* can be cancelled at any of its awaits
EngineNext ==
    \/ StartRun
    \/ \E tick \in FeedTicks : TickArrives(tick)
    \/ \E t \in ClockReadings, hook \in HookBehaviours, fault \in Faults :
          ProcessTick(t, hook, fault)
    \/ CallbackReturns
    \/ CallbackRaises
    \/ SleepDone
    \/ CancelRun
    \/ HeartbeatCancelled
    \/ RunExits

EngineSpec == Init /\ [][EngineNext]_vars

\* The engine with the heartbeat task's log lines made visible, during trading hours
\* and with a telemetry hook that returns
HeartbeatNext ==
    \/ StartRun
    \/ \E tick \in FeedTicks : TickArrives(tick)
    \/ \E fault \in Faults : ProcessTick(TradingStart, "returns", fault)
    \/ CallbackReturns
    \/ CallbackRaises
    \/ SleepDone
    \/ CancelRun
    \/ HeartbeatCancelled
    \/ RunExits
    \/ HeartbeatLogs

HeartbeatSpec == Init /\ [][HeartbeatNext]_vars

\* Several calls of execute_pair on one executor and one event loop: each runs without
\* interruption from one await to the next, and the calls interleave at the awaits
ConcurrentNext ==
    \/ \E c \in Calls, symbol \in Symbols : Admit(c, symbol)
    \/ \E c \in Calls, outcome \in Outcomes : LegsReturned(c, outcome)
    \/ \E c \in Calls : FailsafeReturned(c)
    \/ \E c \in Calls : CancelCall(c)

ConcurrentSpec == Init /\ [][ConcurrentNext]_vars

\* The SafetyManager of a bot that has been trading for a long time: the history holds
\* HistoryMaxLen - 2 .. HistoryMaxLen records, one per RateWindow, the last one
\* RateWindow before the clock reading, and no position is open
HistoryInit ==
    /\ trade_history \in
          {[i \in 1..n |-> TradeRecord(RateWindow * (i - 1), "SBIN", 150, TRUE)] :
              n \in (HistoryMaxLen - 2)..HistoryMaxLen}
    /\ open_symbols = << >>
    /\ failed_fills = 0
    /\ now = RateWindow * HistoryMaxLen
    /\ sm_ret = NoValue
    /\ det_min_spread = MinSpread
    /\ per_symbol_qty = << >>
    /\ snapshot = NoValue
    /\ signal = NotEvaluated
    /\ pc = "idle"
    /\ call = NoValue
    /\ results = << >>
    /\ venue = << >>
    /\ sq_legs = << >>
    /\ sq_state = << >>
    /\ acct = NoValue
    /\ admitted = 0
    /\ workers = << >>
    /\ nse_ticks = << >>
    /\ bse_ticks = << >>
    /\ queue = << >>
    /\ received = << >>
    /\ run_pc = "created"
    /\ heartbeat_task = "none"
    /\ callback = "idle"
    /\ cancel_requested = FALSE
    /\ errors = 0
    /\ iteration = NoIteration
    /\ calls = [c \in Calls |-> IdleCall]
    /\ poll = NotPolling
    /\ heartbeat_log = NoValue

HistoryNext ==
    \E s \in Symbols, sp \in SpreadArgs, ok \in BOOLEAN : RecordTrade(s, sp, ok)

HistorySpec == HistoryInit /\ [][HistoryNext]_vars

\* One call of _wait_for_completion on a worker thread. The thread is never starved and
\* every call to the gateway returns, so the wait always takes its next step.
PollNext ==
    \/ \E is_ioc \in BOOLEAN : StartPolling(is_ioc)
    \/ \E obs \in PollObservations : Poll(obs)
    \/ DeadlinePasses
    \/ \E status \in DetailStatuses : FinalDetails(status)
    \/ \E status \in DetailStatuses : Recheck(status)
    \/ \E resp \in CancelResponses : CancelOrder(resp)

PollSpec == Init /\ [][PollNext]_vars /\ WF_vars(PollNext)

-----------------------------------------------------------------------------
(* Properties *)

\* C1: for every admitted call of execute_pair, register_open(symbol) is followed by
\* exactly one register_close(symbol) on every exit path (success, failure, an exception
\* in a placement or inside reconciliation): while the call runs the marker is held and
\* not yet released, and when it has returned the marker was released once and is gone.
\* (A call that is cancelled at an await does not return; it is not part of this property.)
C1_OpenClosedOnce ==
    /\ pc \in {"await_legs", "await_failsafe"} =>
          /\ acct.opens = 1 /\ acct.closes = 0
          /\ OpenGet(open_symbols, call.buy.symbol) = 1
    /\ (pc = "returned" /\ acct.ret # "blocked") =>
          /\ acct.opens = 1 /\ acct.closes = 1
          /\ call.buy.symbol \notin DOMAIN open_symbols

\* C1, its case: a call whose reconciliation raised has returned with the marker released
C1_ClosedAfterException ==
    /\ pc = "returned"
    /\ acct.raised
    /\ acct.closes = 1
    /\ call.buy.symbol \notin DOMAIN open_symbols

\* C2: every call of execute_pair that returns ends in exactly one of: blocked (nothing
\* opened, nothing recorded, no failsafe), success (a success recorded, no failsafe),
\* failure (the failsafe invoked and a failure recorded).
C2_ThreeOutcomes ==
    pc = "returned" =>
        LET blocked == /\ acct.ret = "blocked" /\ acct.opens = 0
                       /\ acct.records = 0 /\ acct.failsafe = 0
            success == /\ acct.ret = "summary" /\ acct.verdict = "success"
                       /\ acct.records = 1 /\ acct.failsafe = 0
            failure == /\ acct.ret = "summary" /\ acct.verdict = "failure"
                       /\ acct.records = 1 /\ acct.failsafe = 1
        IN  \/ blocked /\ ~ success /\ ~ failure
            \/ success /\ ~ blocked /\ ~ failure
            \/ failure /\ ~ blocked /\ ~ success

\* C3: once the failsafe has been invoked, every leg of the pair that had any fill and
\* ended COMPLETE (filled fully or in part) or CANCELLED after a partial fill, its filled
\* quantity being known to the executor, has exactly one square-off order: same venue,
\* opposite side, MARKET, IOC, quantity equal to what was really filled.
C3_FailsafeSquaresOffEveryFill ==
    (pc \in {"await_failsafe", "returned"} /\ acct.failsafe = 1) =>
        \A s \in Sides :
            (/\ venue[s] > 0
             /\ results[s].status \in {"COMPLETE", "PARTIAL", "CANCELLED"}
             /\ results[s].filled_qty = venue[s]) =>
                LET mine == {i \in DOMAIN sq_legs :
                                /\ sq_legs[i].exchange = call[s].exchange
                                /\ sq_legs[i].side = Opposite(call[s].side)}
                IN  /\ Cardinality(mine) = 1
                    /\ \A i \in mine :
                          sq_legs[i] = OrderLeg(call[s].exchange, call[s].symbol,
                                                Opposite(call[s].side), venue[s],
                                                "MARKET", "IOC", 0)

\* C4 as the spec states it: the trip is not permanent, a tripped breaker leads to a state
\* in which the counter is zero again
C4_TripClearsAgain ==
    (failed_fills >= MaxFailedFills) ~> (failed_fills = 0)

\* C4, amended: once the consecutive-failure counter has reached max_failed_fills, every
\* admission attempt returns the blocked result, and the counter never changes again: the
\* trip is permanent for the life of the SafetyManager.
C4_TripBlocksAndStays ==
    [][failed_fills >= MaxFailedFills =>
          /\ failed_fills' = failed_fills
          /\ trade_history' = trade_history
          /\ (pc = "idle" /\ pc' # "idle") =>
                (pc' = "returned" /\ acct'.ret = "blocked")]_vars

\* C4, its case: an admission attempt made after the trip has returned blocked
C4_BlockedAfterTrip ==
    /\ failed_fills >= MaxFailedFills
    /\ pc = "returned"
    /\ acct.ret = "blocked"

\* C5: record_trade is called exactly once for every admitted attempt, not before both
\* legs have resolved and reconciliation (with the failsafe) has run, with success = TRUE
\* exactly when both legs are COMPLETE without slippage breach; never for a blocked attempt.
C5_RecordedOncePerAttempt ==
    /\ pc \in {"await_legs", "await_failsafe"} => acct.records = 0
    /\ pc = "returned" =>
          IF acct.ret = "blocked"
          THEN acct.records = 0
          ELSE /\ acct.records = 1
               /\ \A s \in Sides : results[s] # Running
               /\ (acct.verdict = "success") <=>
                      /\ results.buy.status = "COMPLETE"
                      /\ results.sell.status = "COMPLETE"
                      /\ ~ slippage_breach(call.buy, results.buy, call.sell, results.sell)

\* C6: when either leg's slippage exceeds max_slippage_per_leg, the returned call has
\* recorded a failure (never a success), has invoked the failsafe, which squares off both
\* legs when both are COMPLETE and fully filled, and has released the marker.
C6_BreachForcesFailure ==
    (/\ pc = "returned"
     /\ acct.ret # "blocked"
     /\ slippage_breach(call.buy, results.buy, call.sell, results.sell)) =>
        /\ acct.verdict = "failure"
        /\ acct.records = 1
        /\ acct.failsafe = 1
        /\ call.buy.symbol \notin DOMAIN open_symbols
        /\ (\A s \in Sides : results[s].status = "COMPLETE" /\ venue[s] = call[s].quantity)
              => Len(sq_legs) = 2

\* C7: when one leg of an admitted pair is COMPLETE, fully filled, and the other leg ended
\* with zero fill (rejected, cancelled or error), the returned call has submitted exactly one
\* square-off order (opposite side, MARKET, the filled leg's venue, its filled quantity),
\* has recorded a failure and has released the marker.
C7_OneLegFilled ==
    \A s \in Sides :
        LET o == CHOOSE x \in Sides : x # s
        IN  (/\ pc = "returned"
             /\ acct.ret # "blocked"
             /\ results[s].status = "COMPLETE"
             /\ venue[s] = call[s].quantity
             /\ venue[o] = 0
             /\ results[o].status \in {"REJECTED", "CANCELLED", "error"}) =>
                /\ sq_legs = << OrderLeg(call[s].exchange, call[s].symbol,
                                         Opposite(call[s].side), venue[s],
                                         "MARKET", "IOC", 0) >>
                /\ acct.verdict = "failure"
                /\ acct.records = 1
                /\ call.buy.symbol \notin DOMAIN open_symbols

\* C8: evaluate returns a signal if and only if the larger of the two directional spreads
\* (BSE.bid - NSE.ask, NSE.bid - BSE.ask) is >= max(detector min_spread, global min_spread)
\* and, for that direction, the buy venue's ask quantity and the sell venue's bid quantity
\* are both >= the required quantity.
C8_SignalIff ==
    signal # NotEvaluated =>
        LET s1 == snapshot.bse_bid - snapshot.nse_ask
            s2 == snapshot.nse_bid - snapshot.bse_ask
            required == IF snapshot.symbol \in DOMAIN per_symbol_qty
                        THEN per_symbol_qty[snapshot.symbol] ELSE DefaultQuantity
            threshold == IF det_min_spread >= MinSpread THEN det_min_spread ELSE MinSpread
            best == IF s1 >= s2 THEN s1 ELSE s2
            liquid == IF s1 >= s2
                      THEN snapshot.nse_ask_qty >= required /\ snapshot.bse_bid_qty >= required
                      ELSE snapshot.bse_ask_qty >= required /\ snapshot.nse_bid_qty >= required
        IN  (signal.op = "signal") <=> (best >= threshold /\ liquid)

\* C8, its case: a qualifying spread whose sell side lacks the quantity gave no signal
C8_QualifyingSpreadNoLiquidity ==
    /\ signal = NoValue
    /\ snapshot.bse_bid - snapshot.nse_ask > snapshot.nse_bid - snapshot.bse_ask
    /\ snapshot.bse_bid - snapshot.nse_ask >= det_min_spread
    /\ snapshot.bse_bid - snapshot.nse_ask >= MinSpread
    /\ snapshot.symbol \in DOMAIN per_symbol_qty
    /\ snapshot.nse_ask_qty >= per_symbol_qty[snapshot.symbol]
    /\ snapshot.bse_bid_qty < per_symbol_qty[snapshot.symbol]

\* C9: an emitted signal has the direction of the larger directional profit, buy-NSE /
\* sell-BSE when the two are equal; its spread is that direction's profit and its quantity
\* the quantity configured for the symbol.
C9_SignalDirection ==
    signal.op = "signal" =>
        LET s1 == snapshot.bse_bid - snapshot.nse_ask
            s2 == snapshot.nse_bid - snapshot.bse_ask
        IN  /\ signal.symbol = snapshot.symbol
            /\ signal.buy_exchange = (IF s1 >= s2 THEN "NSE" ELSE "BSE")
            /\ signal.sell_exchange = (IF s1 >= s2 THEN "BSE" ELSE "NSE")
            /\ signal.spread = (IF s1 >= s2 THEN s1 ELSE s2)
            /\ signal.quantity = (IF snapshot.symbol \in DOMAIN per_symbol_qty
                                  THEN per_symbol_qty[snapshot.symbol] ELSE DefaultQuantity)

\* C9, its case: both directions equally profitable, and a signal was emitted
C9_TieSignal ==
    /\ signal.op = "signal"
    /\ snapshot.bse_bid - snapshot.nse_ask = snapshot.nse_bid - snapshot.bse_ask
    /\ signal.buy_exchange = "NSE"

\* C10: can_trade(symbol) returns TRUE if and only if (a) fewer than max_trades_per_minute
\* records have a timestamp in the last 60 seconds, (b) the symbol has no open position,
\* (c) fewer than max_open_exposure symbols have an open position and (d) the
\* consecutive-failure counter is below max_failed_fills.
C10_CanTradeIff ==
    sm_ret.op = "can_trade" =>
        (sm_ret.result <=>
            /\ Cardinality({i \in DOMAIN trade_history :
                               trade_history[i].timestamp >= now - RateWindow})
                   < MaxTradesPerMinute
            /\ sm_ret.symbol \notin DOMAIN open_symbols
            /\ Cardinality(DOMAIN open_symbols) < MaxOpenExposure
            /\ failed_fills < MaxFailedFills)

\* C10, its case: can_trade denied for the rate alone, one of the counted records being
\* exactly 60 seconds old
C10_DeniedByRateAlone ==
    /\ sm_ret.op = "can_trade"
    /\ ~ sm_ret.result
    /\ open_symbols = << >>
    /\ failed_fills < MaxFailedFills
    /\ \E i \in DOMAIN trade_history : now - trade_history[i].timestamp = RateWindow

\* C11: the rate limit is a sliding window over the recorded trades. A can_trade call
\* made while max_trades_per_minute records (successes or failures) lie within the
\* trailing 60 seconds returns FALSE, whatever the symbol; and a step in which only the
\* clock moves, to a time at which fewer than max_trades_per_minute records are that
\* recent, leaves every symbol admissible that nothing else blocks: no other operation
\* is needed.
C11_SlidingWindow ==
    /\ [](sm_ret.op = "can_trade" =>
            (Cardinality({i \in DOMAIN trade_history :
                             now - trade_history[i].timestamp <= RateWindow})
                 >= MaxTradesPerMinute
             => ~ sm_ret.result))
    /\ [][(/\ now' > now
           /\ trade_history' = trade_history
           /\ open_symbols' = open_symbols
           /\ failed_fills' = failed_fills
           /\ Cardinality({i \in DOMAIN trade_history :
                              now' - trade_history[i].timestamp <= RateWindow})
                  < MaxTradesPerMinute
           /\ open_symbols = << >>
           /\ failed_fills < MaxFailedFills)
          => \A s \in Symbols :
                can_trade_on(trade_history', open_symbols', failed_fills', now', s)]_vars

\* C11, its case: max_trades_per_minute trades were recorded at one time, 61 seconds have
\* passed since, and can_trade has returned TRUE
C11_AdmittedAfterAgeing ==
    /\ sm_ret.op = "can_trade"
    /\ sm_ret.result
    /\ Len(trade_history) >= MaxTradesPerMinute
    /\ \A i \in DOMAIN trade_history : now - trade_history[i].timestamp = RateWindow + 1

\* C12: the failure counter equals the number of failure records since the most recent
\* success record (zero right after a success, one more for each failure), and a
\* can_trade call made while it is at or above max_failed_fills returns FALSE, whatever
\* the symbol.
C12_ConsecutiveFailures ==
    /\ LET successes == {i \in DOMAIN trade_history : trade_history[i].success}
           since == {i \in DOMAIN trade_history : \A j \in successes : j < i}
       IN  failed_fills = Cardinality(since)
    /\ (sm_ret.op = "can_trade" /\ failed_fills >= MaxFailedFills) => ~ sm_ret.result

\* C12, its case: a success was followed by max_failed_fills failures and can_trade,
\* with nothing else in its way, has returned FALSE
C12_TrippedAfterSuccess ==
    /\ sm_ret.op = "can_trade"
    /\ ~ sm_ret.result
    /\ failed_fills = MaxFailedFills
    /\ \E i \in DOMAIN trade_history : trade_history[i].success
    /\ Len(trade_history) < MaxTradesPerMinute
    /\ open_symbols = << >>

\* C13: a call that can_trade denies returns blocked with no leg placed and no square-off
\* submitted; a call that can_trade admits has marked its symbol open before either leg is
\* handed to the worker pool, so every placement runs while the symbol is marked open.
C13_OpenBeforeDispatch ==
    /\ []((pc = "returned" /\ acct.ret = "blocked") =>
            /\ acct.opens = 0
            /\ results = << >>
            /\ sq_legs = << >>
            /\ \A s \in Sides : venue[s] = 0)
    /\ [](pc = "await_legs" => OpenGet(open_symbols, call.buy.symbol) > 0)
    /\ [][\A s \in Sides :
             (/\ pc = "await_legs" /\ pc' = "await_legs"
              /\ results[s] = Running /\ results'[s] # Running)
             => OpenGet(open_symbols, call[s].symbol) > 0]_vars

\* C13, its case: both legs of an admitted call have been placed, the symbol marked open
C13_LegsPlacedWhileOpen ==
    /\ pc = "await_legs"
    /\ \A s \in Sides : results[s] # Running
    /\ \E s \in Sides : venue[s] > 0
    /\ OpenGet(open_symbols, call.buy.symbol) = 1

\* C14: a denied admission leaves the SafetyManager's state as it was: the step in which
\* execute_pair returns blocked changes neither the trade history, nor the open-position
\* counts, nor the consecutive-failure counter.
C14_DeniedLeavesStateUnchanged ==
    [][(pc = "idle" /\ pc' = "returned" /\ acct'.ret = "blocked") =>
          /\ trade_history' = trade_history
          /\ open_symbols' = open_symbols
          /\ failed_fills' = failed_fills]_vars

\* C14, its case: a call was denied after trades had been recorded, and no marker is set
C14_DeniedWithHistory ==
    /\ pc = "returned"
    /\ acct.ret = "blocked"
    /\ acct.records = 0
    /\ Len(trade_history) >= 1
    /\ open_symbols = << >>

\* C15: an admitted call that has returned has recorded a success if and only if both
\* legs ended COMPLETE and fully filled and neither leg breached the slippage limit; a
\* recorded success comes with no failsafe and no square-off order, and never with a leg
\* that the venue filled only in part.
C15_SuccessIff ==
    (pc = "returned" /\ acct.ret # "blocked") =>
        LET recorded == acct.records = 1 /\ acct.verdict = "success"
            breach == slippage_breach(call.buy, results.buy, call.sell, results.sell)
        IN  /\ recorded <=>
                  /\ \A s \in Sides : /\ results[s].status = "COMPLETE"
                                      /\ results[s].filled_qty = call[s].quantity
                  /\ ~ breach
            /\ recorded =>
                  /\ acct.failsafe = 0
                  /\ sq_legs = << >>
                  /\ \A s \in Sides : venue[s] = call[s].quantity

\* C16: a leg whose order the venue accepted is handed to reconciliation with a terminal
\* status: COMPLETE, PARTIAL, REJECTED or CANCELLED, never PENDING, OPEN or UNKNOWN.
C16_TerminalLegStatus ==
    pc \in {"await_legs", "await_failsafe", "returned"} =>
        \A s \in DOMAIN results :
            (results[s] # Running /\ results[s].status # "error") =>
                results[s].status \in {"COMPLETE", "PARTIAL", "REJECTED", "CANCELLED"}

\* C17: the result of a placement whose order details were read is classified by what the
\* venue filled: the reported filled quantity is the quantity the venue filled; a fill of
\* the whole quantity is COMPLETE, a fill of a part of it is PARTIAL whatever status the
\* venue reports, and a leg reported REJECTED or CANCELLED without being PARTIAL has
\* filled nothing.
C17_ClassifiedByFill ==
    pc \in {"await_legs", "await_failsafe", "returned"} =>
        \A s \in DOMAIN results :
            (/\ results[s] # Running
             /\ results[s].status # "error"
             /\ results[s].price # NonePrice
             /\ results[s].status \in {"COMPLETE", "PARTIAL", "REJECTED", "CANCELLED"}) =>
                /\ results[s].filled_qty = venue[s]
                /\ (venue[s] = call[s].quantity) => results[s].status = "COMPLETE"
                /\ (0 < venue[s] /\ venue[s] < call[s].quantity)
                      => results[s].status = "PARTIAL"
                /\ (venue[s] = 0) => results[s].status \in {"REJECTED", "CANCELLED"}

\* C18: the failsafe submits no square-off order for a leg the venue filled with nothing
\* (rejected, cancelled unfilled, failed before or at submission), and no order at all
\* when neither leg was filled.
C18_NoSquareOffForZeroFill ==
    pc \in {"await_failsafe", "returned"} =>
        /\ \A s \in Sides :
              venue[s] = 0 =>
                  \A i \in DOMAIN sq_legs :
                      ~ (/\ sq_legs[i].exchange = call[s].exchange
                         /\ sq_legs[i].side = Opposite(call[s].side))
        /\ (\A s \in Sides : venue[s] = 0) => sq_legs = << >>

\* C18, its case: the failsafe has run for a pair with one leg REJECTED unfilled and the
\* other leg filled, and has submitted one order
C18_RejectedLegNotSquaredOff ==
    /\ pc = "returned"
    /\ acct.failsafe = 1
    /\ \E s \in Sides :
          /\ venue[s] = 0
          /\ results[s].status = "REJECTED"
          /\ \E o \in Sides : o # s /\ venue[o] > 0
    /\ Len(sq_legs) = 1

\* C19: a square-off is not retried. For one pair attempt the failsafe runs at most once
\* and submits at most one square-off order per original leg, at most two in all; once
\* submitted, the orders stay as they are whatever their outcome, each is placed once,
\* and the call returns in its next step after the last of them.
C19_SquareOffNotRetried ==
    /\ [](pc \in {"await_failsafe", "returned"} =>
            /\ acct.failsafe <= 1
            /\ Len(sq_legs) <= 2
            /\ \A s \in Sides :
                  Cardinality({i \in DOMAIN sq_legs :
                                  sq_legs[i].exchange = call[s].exchange}) <= 1)
    /\ [][pc = "await_failsafe" =>
             /\ pc' \in {"await_failsafe", "returned", "cancelled"}
             /\ pc' # "cancelled" =>
                   /\ sq_legs' = sq_legs
                   /\ acct'.failsafe = acct.failsafe
                   /\ \A i \in DOMAIN sq_state :
                         sq_state[i] # "running" => sq_state'[i] = sq_state[i]]_vars

\* C19, its case: the call has returned after two square-off orders of which one was not
\* executed
C19_FailedSquareOffReturned ==
    /\ pc = "returned"
    /\ Len(sq_legs) = 2
    /\ \E i \in DOMAIN sq_state : sq_state[i] \in {"failed", "incomplete"}
    /\ acct.failsafe = 1
    /\ acct.records = 1

\* C20: a leg whose instrument cannot be resolved, or a LIMIT leg with a price <= 0,
\* returns an error result with nothing submitted to the venue, its placement is not
\* run again, and the pair follows the failure path: the failsafe is invoked, a failure
\* is recorded and the marker is released.
C20_ValidationFailure ==
    /\ \A s \in DOMAIN results :
          (/\ results[s].status = "error"
           /\ results[s].error \in {"missing token", "Invalid limit price"}) =>
              venue[s] = 0
    /\ (/\ pc = "returned"
        /\ acct.ret # "blocked"
        /\ \E s \in Sides :
              /\ results[s].status = "error"
              /\ results[s].error \in {"missing token", "Invalid limit price"}) =>
          /\ acct.verdict = "failure"
          /\ acct.failsafe = 1
          /\ acct.records = 1
          /\ call.buy.symbol \notin DOMAIN open_symbols

\* C30: the open-position map is reference-counted. Every symbol present has a count of
\* at least 1; register_open adds one to the symbol's count; register_close takes one
\* off and the entry is gone exactly when the count reaches zero; register_close for a
\* symbol with no entry changes nothing, so no count is ever negative; and neither call
\* changes the count or the presence of another symbol.
C30_ReferenceCounted ==
    /\ \A s \in DOMAIN open_symbols : open_symbols[s] >= 1
    /\ \A s \in Symbols :
          LET before == OpenGet(open_symbols, s)
              opened == register_open(open_symbols, s)
              closed == register_close(open_symbols, s)
          IN  /\ OpenGet(opened, s) = before + 1
              /\ s \in DOMAIN opened
              /\ OpenGet(closed, s) = Max(before - 1, 0)
              /\ s \in DOMAIN closed <=> before >= 2
              /\ s \notin DOMAIN open_symbols => closed = open_symbols
              /\ \A t \in Symbols \ {s} :
                    /\ OpenGet(opened, t) = OpenGet(open_symbols, t)
                    /\ OpenGet(closed, t) = OpenGet(open_symbols, t)
                    /\ t \in DOMAIN opened <=> t \in DOMAIN open_symbols
                    /\ t \in DOMAIN closed <=> t \in DOMAIN open_symbols

\* C30 witness: one symbol is held twice while another symbol is held, so a close of
\* the first must leave its entry and the other symbol's count in place
C30_HeldTwiceBesideAnother ==
    \E s \in Symbols, t \in Symbols :
        /\ s # t
        /\ OpenGet(open_symbols, s) = 2
        /\ OpenGet(open_symbols, t) >= 1

\* C21: the two legs of a pair are dispatched concurrently. An admitted call reaches
\* its first await with both placements started; while the call waits there, a
\* placement that has not returned can run whatever the other leg has done, so either
\* leg can be the first to be submitted; and reconciliation (a verdict, a record, a
\* square-off, the release of the marker) happens only when both have returned.
C21_LegsDispatchedConcurrently ==
    /\ [][(pc = "idle" /\ pc' = "await_legs") =>
             \A s \in Sides : results'[s] = Running]_vars
    /\ [](pc = "await_legs" =>
             \A s \in Sides : results[s] = Running => ENABLED PlaceLeg(s))
    /\ [][(pc = "await_legs" /\ pc' \in {"await_failsafe", "returned"}) =>
             \A s \in Sides : results[s] # Running]_vars

\* C21 witness: the sell leg's placement has returned while the buy leg's is running
C21_SellReturnedFirst ==
    /\ pc = "await_legs"
    /\ results.sell # Running
    /\ results.buy = Running

\* C28: engine shutdown while a pair is in flight does not abort the placements that
\* worker threads of the pool are running. The cancellation leaves each of them
\* running (only a placement that no thread has started yet is dropped, with nothing
\* submitted); afterwards each can still run, whatever else happens, and the only
\* change it ever undergoes is to end with the status its own _place_order returns.
C28_PlacementsOutliveShutdown ==
    /\ [][(pc # "cancelled" /\ pc' = "cancelled") =>
             /\ DOMAIN workers' = DOMAIN PendingPlacements
             /\ \A i \in DOMAIN workers' :
                   /\ workers'[i].leg = PendingPlacements[i]
                   /\ workers'[i].state \in {"running", "not_started"}]_vars
    /\ [](pc = "cancelled" =>
             \A i \in DOMAIN workers :
                workers[i].state = "running" => ENABLED PlaceAfterCancel(i))
    /\ [][(pc = "cancelled" /\ pc' = "cancelled") =>
             \A i \in DOMAIN workers :
                /\ workers'[i].leg = workers[i].leg
                /\ workers'[i].state # workers[i].state =>
                      /\ workers[i].state = "running"
                      /\ workers'[i].state \in
                            {_place_order(workers[i].leg, env).status :
                                env \in PlaceEnvs(workers[i].leg)}]_vars

\* C28 witness: the call was cancelled while both legs were with the worker threads,
\* and afterwards one placement got its order filled while the other is still running
C28_FilledAfterShutdown ==
    /\ pc = "cancelled"
    /\ Len(workers) = 2
    /\ workers[1].state = "COMPLETE"
    /\ workers[2].state = "running"

\* C22 (as stated): a tick is evaluated only inside the half-open trading window: the
\* iteration builds a snapshot, calls the hook, the detector or the callback only if
\* start <= t < end for the local time t at which it asked whether the market is open.
C22_HalfOpenWindow ==
    (/\ iteration.n > 0
     /\ \/ iteration.snapshot # NoValue
        \/ iteration.hook # "not_called"
        \/ iteration.evaluated
        \/ iteration.called) =>
        (TradingStart <= iteration.t /\ iteration.t < TradingEnd)

\* C22 (amended): the trading window is the closed interval [start, end]. An iteration
\* builds a snapshot, calls the hook, the detector or the callback only if
\* start <= t <= end; inside the window, the end included, a tick whose symbol has a
\* tick of both venues is evaluated; at t < start or t > end the tick is stored in its
\* venue's map and nothing else happens: no snapshot, no hook, no signal, no exception.
C22_ClosedWindow ==
    iteration.n > 0 =>
        LET inside == TradingStart <= iteration.t /\ iteration.t <= TradingEnd
            symbol == iteration.tick.symbol
            bucket == IF iteration.tick.exchange = "NSE" THEN nse_ticks ELSE bse_ticks
        IN  /\ (\/ iteration.snapshot # NoValue
                \/ iteration.hook # "not_called"
                \/ iteration.evaluated
                \/ iteration.called) => inside
            /\ (/\ inside
                /\ symbol \in DOMAIN nse_ticks
                /\ symbol \in DOMAIN bse_ticks
                /\ ~ iteration.raised) =>
                   (iteration.snapshot # NoValue /\ iteration.evaluated)
            /\ ~ inside =>
                   /\ symbol \in DOMAIN bucket
                   /\ bucket[symbol] = iteration.tick
                   /\ iteration.signal = NoValue
                   /\ ~ iteration.raised
                   /\ run_pc # "callback"

\* C22 witness: a tick processed at exactly the end of the window gave a signal
C22_SignalAtWindowEnd ==
    /\ iteration.n > 0
    /\ iteration.t = TradingEnd
    /\ iteration.snapshot # NoValue
    /\ iteration.called

\* C23: for each symbol and venue the stored tick is the tick of that symbol and venue
\* that next_tick returned last, whether the market was open or not when it came
\* (nothing is stored before the first one), and the step that stores a tick of one
\* venue leaves the other venue's map as it was.
C23_LatestTickPerVenue ==
    /\ [](\A symbol \in Symbols :
             LET of_nse == {i \in DOMAIN received :
                               received[i].symbol = symbol /\ received[i].exchange = "NSE"}
                 of_bse == {i \in DOMAIN received :
                               received[i].symbol = symbol /\ received[i].exchange = "BSE"}
             IN  /\ symbol \in DOMAIN nse_ticks <=> of_nse # {}
                 /\ symbol \in DOMAIN bse_ticks <=> of_bse # {}
                 /\ of_nse # {} =>
                       nse_ticks[symbol] =
                           received[CHOOSE i \in of_nse : \A j \in of_nse : j <= i]
                 /\ of_bse # {} =>
                       bse_ticks[symbol] =
                           received[CHOOSE i \in of_bse : \A j \in of_bse : j <= i])
    /\ [][received' # received =>
             LET tick == received'[Len(received')]
             IN  /\ tick.exchange = "NSE" => bse_ticks' = bse_ticks
                 /\ tick.exchange = "BSE" => nse_ticks' = nse_ticks]_vars

\* C23 witness: a BSE tick that came after the window had closed has replaced an
\* earlier, different BSE tick of its symbol, beside a stored NSE tick of that symbol
C23_StoredOutsideWindow ==
    /\ iteration.n > 0
    /\ ~ iteration.open
    /\ iteration.tick.exchange = "BSE"
    /\ iteration.tick.symbol \in DOMAIN nse_ticks
    /\ bse_ticks[iteration.tick.symbol] = iteration.tick
    /\ \E i \in 1..(iteration.n - 1) :
          /\ received[i].symbol = iteration.tick.symbol
          /\ received[i].exchange = "BSE"
          /\ received[i] # iteration.tick

\* C24: an iteration builds a snapshot, and so calls the hook, the detector or the
\* callback, only for a symbol of which a tick of NSE and a tick of BSE were received,
\* and the snapshot pairs the stored ticks of the two venues.
C24_SnapshotNeedsBothVenues ==
    (/\ iteration.n > 0
     /\ \/ iteration.snapshot # NoValue
        \/ iteration.hook # "not_called"
        \/ iteration.evaluated
        \/ iteration.called) =>
        LET symbol == iteration.tick.symbol
        IN  /\ \E i \in DOMAIN received :
                  received[i].symbol = symbol /\ received[i].exchange = "NSE"
            /\ \E i \in DOMAIN received :
                  received[i].symbol = symbol /\ received[i].exchange = "BSE"
            /\ iteration.snapshot.symbol = symbol
            /\ iteration.snapshot.nse_bid = nse_ticks[symbol].best_bid
            /\ iteration.snapshot.nse_ask = nse_ticks[symbol].best_ask
            /\ iteration.snapshot.bse_bid = bse_ticks[symbol].best_bid
            /\ iteration.snapshot.bse_ask = bse_ticks[symbol].best_ask

\* C24 witness: the market is open and ticks of both venues were received, but of
\* different symbols, and the iteration built no snapshot
C24_OtherSymbolDoesNotCount ==
    /\ iteration.n >= 2
    /\ iteration.open
    /\ ~ iteration.raised
    /\ iteration.snapshot = NoValue
    /\ \E i \in DOMAIN received : received[i].exchange = "NSE"
    /\ \E i \in DOMAIN received : received[i].exchange = "BSE"

\* C25: an exception raised while a tick is processed never ends the loop. The step in
\* which it is caught takes run to the handler's sleep, the sleep can always end and
\* leads back to next_tick (or to the cancellation), a waiting run can always pull the
\* oldest queued tick, and run is in its finally clause or has exited only if the run
\* task was cancelled.
C25_ExceptionDoesNotEndLoop ==
    /\ []((run_pc \in {"finally", "exited"}) => cancel_requested)
    /\ [][errors' > errors => run_pc' = "sleep"]_vars
    /\ [][(run_pc = "sleep" /\ run_pc' # "sleep") => run_pc' \in {"next_tick", "finally"}]_vars
    /\ [](run_pc = "sleep" => ENABLED SleepDone)
    /\ []((run_pc = "next_tick" /\ queue # << >>) =>
             ENABLED (\E t \in ClockReadings, hook \in HookBehaviours, fault \in Faults :
                         ProcessTick(t, hook, fault)))

\* C25 witness: after an exception was caught, a later tick was pulled and evaluated
C25_EvaluatedAfterException ==
    /\ errors >= 1
    /\ iteration.n >= 2
    /\ iteration.evaluated
    /\ ~ iteration.raised

\* C26: an exception of the telemetry hook is caught where the hook is called: in the
\* same iteration the detector still evaluates the snapshot and, when it returns a
\* signal, the callback is called with it.
C26_HookExceptionSwallowed ==
    iteration.n > 0 =>
        /\ iteration.hook # "raised"
        /\ iteration.hook = "caught" => iteration.evaluated
        /\ (iteration.hook = "caught" /\ iteration.signal # NoValue) => iteration.called
        /\ iteration.called =>
              /\ iteration.signal = evaluate(iteration.snapshot)
              /\ iteration.signal # NoValue

\* C26 witness: the hook raised, the detector gave a signal and the callback is running
C26_CallbackAfterHookException ==
    /\ iteration.hook = "caught"
    /\ iteration.called
    /\ callback = "running"
    /\ run_pc = "callback"

\* C27: once the run task is cancelled, run is in its finally clause or has exited
\* (the handler of the iteration does not keep it in the loop), the heartbeat task has
\* been cancelled, and run has exited only if the heartbeat task is done.
C27_HeartbeatDoneBeforeExit ==
    /\ cancel_requested =>
          /\ run_pc \in {"finally", "exited"}
          /\ heartbeat_task \in {"cancelling", "cancelled"}
    /\ run_pc = "exited" =>
          /\ cancel_requested
          /\ heartbeat_task = "cancelled"
    /\ run_pc \in {"next_tick", "callback", "sleep"} => heartbeat_task = "running"

\* C27 witness: run was cancelled after an iteration had raised an exception, and it
\* has exited with the heartbeat task done
C27_ExitedFromHandler ==
    /\ run_pc = "exited"
    /\ heartbeat_task = "cancelled"
    /\ iteration.raised
    /\ callback = "idle"

\* C29: one consumer processes the ticks in their order of arrival. A tick is pulled
\* only by a run that waits in next_tick with no callback in progress, it is the oldest
\* tick of the queue, arriving ticks join the queue at its end, and while a callback
\* (with the pair execution it awaits) is in progress run waits for it.
C29_OneTickAtATime ==
    /\ [][received' # received =>
             /\ run_pc = "next_tick"
             /\ callback = "idle"
             /\ queue # << >>
             /\ received' = Append(received, Head(queue))
             /\ queue' = Tail(queue)]_vars
    /\ [][(queue' # queue /\ received' = received) =>
             /\ Len(queue') = Len(queue) + 1
             /\ SubSeq(queue', 1, Len(queue)) = queue]_vars
    /\ [](callback = "running" => run_pc = "callback")

\* C29 witness: the third tick waits in the queue while the callback that the second
\* tick's signal started is running
C29_TickWaitsDuringCallback ==
    /\ callback = "running"
    /\ run_pc = "callback"
    /\ Len(received) = 2
    /\ Len(queue) = 1

\* C32: the worker threads never write the SafetyManager's state or the tick maps. A
\* step in which a placement of a leg or of a square-off order returns (the call stays
\* where it is) leaves the open counts, the trade history, the failure counter and both
\* tick maps unchanged; the history and the counter change only in the call's own flow,
\* at one of its awaits, when every placement it waits for has returned.
C32_WorkersLeaveStateAlone ==
    /\ [][(/\ pc' = pc
           /\ \/ results' # results
              \/ sq_state' # sq_state
              \/ workers' # workers) =>
             /\ open_symbols' = open_symbols
             /\ trade_history' = trade_history
             /\ failed_fills' = failed_fills
             /\ nse_ticks' = nse_ticks
             /\ bse_ticks' = bse_ticks]_vars
    /\ [][(trade_history' # trade_history \/ failed_fills' # failed_fills) =>
             /\ pc \in {"await_legs", "await_failsafe"}
             /\ pc' = "returned"
             /\ \A s \in Sides : results[s] # Running
             /\ \A i \in DOMAIN sq_state : sq_state[i] # "running"]_vars

\* C32 witness: the buy leg's placement has returned an error while the sell leg's is
\* running, and nothing was recorded or counted
C32_LegFailedNothingCounted ==
    /\ pc = "await_legs"
    /\ results.buy.status = "error"
    /\ results.sell = Running
    /\ failed_fills = 0
    /\ trade_history = << >>
    /\ call.buy.symbol \in DOMAIN open_symbols

\* C39: a call of execute_pair that is cancelled while it awaits the two leg placements
\* exits without reconciliation. No square-off order was or is submitted for it (the
\* only orders of the attempt are its two legs), no trade is recorded and
\* register_close is not called: the symbol's marker stays set, and from the
\* cancellation on nothing changes the SafetyManager's state, whatever the worker
\* threads still do with the orders.
C39_CancelledCallLeavesMarker ==
    /\ []((pc = "cancelled" /\ acct.failsafe = 0) =>
             /\ acct.records = 0
             /\ acct.closes = 0
             /\ acct.verdict = "none"
             /\ OpenGet(open_symbols, call.buy.symbol) = 1
             /\ \A i \in DOMAIN workers : workers[i].leg \in {call.buy, call.sell})
    /\ [][pc' = "cancelled" =>
             /\ trade_history' = trade_history
             /\ failed_fills' = failed_fills
             /\ open_symbols' = open_symbols]_vars

\* C39 witness: the call was cancelled at the await of its legs, both orders were
\* filled by the worker threads afterwards, and the marker is still set with nothing
\* recorded
C39_FilledButNeverReconciled ==
    /\ pc = "cancelled"
    /\ acct.failsafe = 0
    /\ Len(workers) = 2
    /\ workers[1].state = "COMPLETE"
    /\ workers[2].state = "COMPLETE"
    /\ call.buy.symbol \in DOMAIN open_symbols
    /\ trade_history = << >>

\* C40: failsafe square-off orders bypass the admission gate and leave the Safety
\* Manager alone. While _failsafe waits for its square-offs the gate refuses the symbol
\* (its marker is set), yet every square-off that has not returned can be placed; a
\* step in which a square-off placement returns, filled or not, changes neither the
\* open counts nor the trade history nor the failure counter, and counts no record and
\* no close for the call.
C40_SquareOffBypassesGate ==
    /\ [](pc = "await_failsafe" =>
             /\ ~can_trade(call.buy.symbol)
             /\ \A i \in DOMAIN sq_state :
                   /\ sq_legs[i].symbol = call.buy.symbol
                   /\ sq_state[i] = "running" => ENABLED PlaceSquareOff(i))
    /\ [][(pc = "await_failsafe" /\ pc' = pc /\ sq_state' # sq_state) =>
             /\ open_symbols' = open_symbols
             /\ trade_history' = trade_history
             /\ failed_fills' = failed_fills
             /\ acct' = acct]_vars

\* C40 witness: of two square-offs one was executed and one was not, while the gate
\* refuses the symbol and the Safety Manager holds what it held at admission
C40_SquareOffsFilledAndFailed ==
    /\ pc = "await_failsafe"
    /\ ~can_trade(call.buy.symbol)
    /\ \E i, j \in DOMAIN sq_state :
          /\ sq_state[i] = "executed"
          /\ sq_state[j] \in {"failed", "incomplete"}
    /\ OpenGet(open_symbols, call.buy.symbol) = 1
    /\ acct.records = 0
    /\ acct.closes = 0

\* C36: on the failure path the open marker is held for the whole recovery. From the
\* step that dispatches the legs, and for as long as the call waits for its legs or for
\* its square-offs, the symbol's marker is set and can_trade refuses the symbol; a
\* failure that leaves legs to close is recorded only from the failsafe, when every
\* square-off has returned; the step that records a failure also releases the marker
\* and ends the attempt, and nothing changes the Safety Manager after it.
C36_MarkerHeldThroughRecovery ==
    /\ [][(pc = "idle" /\ pc' = "await_legs") =>
             /\ \A s \in Sides : results'[s] = Running
             /\ OpenGet(open_symbols', call'.buy.symbol) = 1]_vars
    /\ [](pc \in {"await_legs", "await_failsafe"} =>
             /\ OpenGet(open_symbols, call.buy.symbol) = 1
             /\ ~can_trade(call.buy.symbol))
    /\ [][(pc \in {"await_legs", "await_failsafe"} /\ trade_history' # trade_history
             /\ acct'.verdict = "failure") =>
             /\ pc = "await_legs" =>
                   legs_to_close(call.buy, results.buy, call.sell, results.sell) = << >>
             /\ \A i \in DOMAIN sq_state : sq_state[i] # "running"
             /\ open_symbols' = register_close(open_symbols, call.buy.symbol)
             /\ pc' = "returned"]_vars
    /\ [][pc = "returned" =>
             /\ open_symbols' = open_symbols
             /\ trade_history' = trade_history
             /\ failed_fills' = failed_fills]_vars

\* C36 witness: the failure was recorded and the marker released after both square-offs
\* of the failsafe had returned
C36_ReleasedAfterSquareOffs ==
    /\ pc = "returned"
    /\ acct.verdict = "failure"
    /\ acct.failsafe = 1
    /\ Len(sq_state) = 2
    /\ \A i \in DOMAIN sq_state : sq_state[i] # "running"
    /\ OpenGet(open_symbols, call.buy.symbol) = 0
    /\ failed_fills = 1

\* C37: slippage is measured against the submitted limit price only. When both
\* placements of a call have returned, a MARKET leg and a leg whose result carries no
\* price have slippage 0; a breach is detected exactly when some LIMIT leg's reported
\* price differs from its limit price by strictly more than MaxSlippagePerLeg; two
\* MARKET legs never breach, so when both are COMPLETE the failsafe is not entered.
C37_SlippageAgainstLimitOnly ==
    /\ (pc = "await_legs" /\ \A s \in Sides : results[s] # Running) =>
          LET slip(s) == _slip(LegPriceOf(results[s]), ExpectedPrice(call[s], results[s]))
              breach == slippage_breach(call.buy, results.buy, call.sell, results.sell)
          IN  /\ \A s \in Sides :
                    (call[s].order_type = "MARKET" \/ LegPriceOf(results[s]).kind = "none")
                       => slip(s) = 0
              /\ (\A s \in Sides : call[s].order_type = "MARKET") => ~breach
              /\ breach <=>
                    \E s \in Sides :
                       /\ call[s].order_type = "LIMIT"
                       /\ LegPriceOf(results[s]).kind # "none"
                       /\ Abs(LegPriceOf(results[s]).amt - call[s].price) > MaxSlippagePerLeg
    /\ (pc = "await_failsafe" /\ \A s \in Sides : call[s].order_type = "MARKET") =>
          \E s \in Sides : results[s].status # "COMPLETE"

\* C37 witness: two LIMIT legs are COMPLETE, the buy filled exactly MaxSlippagePerLeg
\* from its limit and the sell one paisa further from its own, and the breach is detected
C37_BreachJustOverLimit ==
    /\ pc = "await_legs"
    /\ \A s \in Sides : results[s].status = "COMPLETE" /\ call[s].order_type = "LIMIT"
    /\ LegPriceOf(results.buy) = Num(call.buy.price - MaxSlippagePerLeg)
    /\ LegPriceOf(results.sell) = Num(call.sell.price + MaxSlippagePerLeg + 1)
    /\ slippage_breach(call.buy, results.buy, call.sell, results.sell)

\* C38: admission is atomic. A call goes from idle to blocked or to its first await in
\* one step, with its marker set in that step; so however concurrent calls of
\* execute_pair on one executor interleave, every symbol's open count is at most 1 and
\* equals the number of calls holding that symbol, and the number of open symbols never
\* exceeds MaxOpenExposure.
C38_AdmissionAtomic ==
    /\ \A s \in DOMAIN open_symbols : open_symbols[s] = 1
    /\ Cardinality(DOMAIN open_symbols) <= MaxOpenExposure
    /\ \A s \in Symbols :
          OpenGet(open_symbols, s) =
             Cardinality({c \in Calls : calls[c].pc \in InFlight /\ calls[c].symbol = s})
    /\ \A c \in Calls : calls[c].pc \in {"idle", "blocked", "returned"} \cup InFlight

\* C38 witness: while one call waits for its square-offs, a second call on the same symbol
\* and a third on the other symbol were both refused
C38_OthersRefusedWhileInFlight ==
    \E a, b, c \in Calls :
       /\ calls[a].pc = "await_failsafe"
       /\ calls[b].pc = "blocked" /\ calls[b].symbol = calls[a].symbol
       /\ calls[c].pc = "blocked" /\ calls[c].symbol # calls[a].symbol
       /\ open_symbols = register_open(<< >>, calls[a].symbol)

\* C33: the trade history is bounded. It never holds more than HistoryMaxLen records;
\* a record appended to a history that is not full is added at the end; a record
\* appended to a full history evicts exactly the oldest one, the others keep their
\* order and move up one place, and the new record is the last.
C33_HistoryBounded ==
    /\ [](Len(trade_history) <= HistoryMaxLen)
    /\ [][trade_history' # trade_history =>
             LET n == Len(trade_history)
             IN  /\ trade_history'[Len(trade_history')].timestamp = now
                 /\ IF n = HistoryMaxLen
                    THEN /\ Len(trade_history') = HistoryMaxLen
                         /\ \A i \in 1..(n - 1) : trade_history'[i] = trade_history[i + 1]
                    ELSE /\ Len(trade_history') = n + 1
                         /\ \A i \in 1..n : trade_history'[i] = trade_history[i]]_vars

\* C33 witness: the history is full, its two oldest records were evicted, and the two
\* newest are the ones just recorded
C33_OldestEvicted ==
    /\ Len(trade_history) = HistoryMaxLen
    /\ trade_history[1].timestamp = RateWindow * 2
    /\ trade_history[HistoryMaxLen - 2].timestamp = RateWindow * (HistoryMaxLen - 1)
    /\ trade_history[HistoryMaxLen - 1].timestamp = now
    /\ trade_history[HistoryMaxLen].timestamp = now

\* C34: status polling always terminates and absorbs failed fetches. A wait that has
\* started always ends; the loop makes at most MaxPolls polls; a poll that observes
\* COMPLETE, REJECTED or CANCELLED ends the wait at once with that status, so no poll
\* follows a terminal observation; after any other poll, one whose fetch failed or
\* raised included, the wait is still polling; and the wait always ends with a status,
\* never with the exception of a fetch.
C34_PollingTerminates ==
    /\ (poll.pc = "polling") ~> (poll.pc = "done")
    /\ [](/\ Len(poll.seen) <= MaxPolls
          /\ \A i \in 1..(Len(poll.seen) - 1) : poll.seen[i] \notin TerminalStatuses
          /\ poll.pc = "done" => poll.ret \in DetailStatuses)
    /\ [][(poll.pc = "polling" /\ poll'.seen # poll.seen) =>
             LET obs == poll'.seen[Len(poll'.seen)]
             IN  IF obs \in TerminalStatuses
                 THEN poll'.pc = "done" /\ poll'.ret = obs
                 ELSE poll'.pc = "polling" /\ poll'.ret = "none"]_vars

\* C34 witness: the first fetch raised, the second failed, the third showed the order
\* COMPLETE, and the wait returned COMPLETE
C34_CompleteAfterFailedFetches ==
    /\ poll.pc = "done"
    /\ poll.seen = <<"raised", "failed", "COMPLETE">>
    /\ poll.ret = "COMPLETE"

\* C35 (amended): the IOC handling after the polling deadline. The status is fetched
\* once more after the grace delay exactly when the order is IOC and the first fetch
\* after the deadline showed it PENDING or OPEN; a cancel request is sent at most once,
\* and only for an IOC order that no poll saw terminal and that both fetches showed
\* PENDING or OPEN; when it was sent, the wait returns CANCELLED if _cancel_order
\* succeeded and PENDING otherwise; when none was sent, the wait returns the status
\* fetched last, which is CANCELLED when the exchange cancelled the order by itself.
C35_IocCancelledOnce ==
    /\ poll.cancels <= 1
    /\ Len(poll.final) <= 2
    /\ Len(poll.final) = 2 => poll.is_ioc /\ poll.final[1] \in {"PENDING", "OPEN"}
    /\ (poll.pc = "done" /\ poll.is_ioc /\ Len(poll.final) >= 1
          /\ poll.final[1] \in {"PENDING", "OPEN"}) => Len(poll.final) = 2
    /\ poll.cancels = 1 =>
          /\ poll.is_ioc
          /\ \A i \in DOMAIN poll.seen : poll.seen[i] \notin TerminalStatuses
          /\ Len(poll.final) = 2
          /\ \A i \in DOMAIN poll.final : poll.final[i] \in {"PENDING", "OPEN"}
          /\ poll.ret = IF _cancel_order(poll.cancel_resp) THEN "CANCELLED" ELSE "PENDING"
    /\ (poll.pc = "done" /\ poll.cancels = 0 /\ poll.final # << >>) =>
          poll.ret = poll.final[Len(poll.final)]

\* C35 witness: an IOC order was PENDING at the deadline and OPEN after the grace delay;
\* one cancel request was sent, the venue refused it, and the wait returned PENDING
C35_CancelRefused ==
    /\ poll.pc = "done"
    /\ poll.is_ioc
    /\ poll.final = <<"PENDING", "OPEN">>
    /\ poll.cancels = 1
    /\ poll.cancel_resp = "dict_error"
    /\ poll.ret = "PENDING"

\* C35 as stated: as above, and an IOC order that was PENDING or OPEN at the polling
\* deadline is reported CANCELLED only when a cancel request was sent and succeeded
C35_CancelledOnlyByRequest ==
    /\ poll.cancels <= 1
    /\ poll.cancels = 1 =>
          /\ poll.is_ioc
          /\ \A i \in DOMAIN poll.final : poll.final[i] \in {"PENDING", "OPEN"}
    /\ (poll.pc = "done" /\ poll.is_ioc /\ Len(poll.final) >= 1
          /\ poll.final[1] \in {"PENDING", "OPEN"} /\ poll.ret = "CANCELLED") =>
          poll.cancels = 1 /\ _cancel_order(poll.cancel_resp)

\* C31: the heartbeat task does not affect tick processing. While the heartbeat task is
\* alive it can log whenever the main loop is suspended, whatever the loop has done so
\* far; a step in which it logs changes nothing but the log line: not the per-venue
\* tick maps, not the queue or the loop's position, not the Safety Manager, and it
\* starts no evaluation and no callback.
C31_HeartbeatOnlyLogs ==
    /\ []((heartbeat_task = "running" /\ run_pc \in {"next_tick", "callback", "sleep"})
             => ENABLED HeartbeatLogs)
    /\ [][heartbeat_log' # heartbeat_log =>
             /\ nse_ticks' = nse_ticks /\ bse_ticks' = bse_ticks
             /\ queue' = queue /\ received' = received
             /\ run_pc' = run_pc /\ errors' = errors
             /\ iteration' = iteration /\ callback' = callback
             /\ signal' = signal /\ snapshot' = snapshot
             /\ trade_history' = trade_history /\ open_symbols' = open_symbols
             /\ failed_fills' = failed_fills]_vars

\* C31 witness: while the callback of a signal is in progress the heartbeat has logged
\* the spread of that symbol, and the ticks, the iteration and the callback are as the
\* loop left them
C31_LoggedDuringCallback ==
    /\ run_pc = "callback"
    /\ callback = "running"
    /\ iteration.called
    /\ heartbeat_log = [msg |-> "Monitoring", nse |-> LowQuote.ltp, bse |-> HighQuote.ltp,
                        spread |-> HighQuote.ltp - LowQuote.ltp]
    /\ Len(received) = 2
    /\ \E symbol \in Symbols : symbol \in DOMAIN nse_ticks /\ symbol \in DOMAIN bse_ticks

============================================================================
